---- MODULE Spec2Model ----
(***************************************************************************)
(* TRINCI node: the startup / lifecycle orchestrator (src/src/app.rs).     *)
(*                                                                         *)
(* Threads: "main" runs App::start and then App::park (src/src/main.rs);   *)
(* "boot" is the detached thread App::start spawns when the genesis bundle *)
(* holds no transaction.  The block engine, the REST, peer, bridge and     *)
(* monitor services and the storage layer are external collaborators: the  *)
(* model keeps of them what App observes and drives (running flags, the    *)
(* engine's configuration, predicate and pool, the stored account and      *)
(* settings).  A panic on the main thread ends the process; a panic on the *)
(* spawned thread ends that thread only (Rust's default unwinding build;   *)
(* the block_svc mutex is released by the unwinding).  The build modelled  *)
(* is the one with the "monitor" feature, where App owns a monitor         *)
(* service.                                                                *)
(***************************************************************************)
EXTENDS Integers, Sequences, FiniteSets, TLC

\* ------------------------------------------------------------------ bounds
\* Largest number of transactions in a genesis bundle of the model.
MaxTxs == 2
\* Blocks the engine may commit in one run.
MaxBlocks == 1
\* Unexpected (non block) messages delivered to the "bootstrap" subscriber.
MaxNoise == 1
\* Services that may stop unexpectedly in one run.
MaxFailures == 1

\* Calls of the Live predicate in one run.
MaxCalls == 2
\* Turns of the monitor worker's loop in one run.
MaxCycles == 2
\* The readings of the system clock are 0..MaxClock.
MaxClock == 1
\* Block notifications put on the tracer's subscription in one run.
MaxNotified == 2

\* --------------------------------------------------------------- constants
Threads == {"main", "boot"}
Services == {"block", "rest", "p2p", "bridge", "monitor"}
NoOne == "none"

\* A network name: absent (Option::None), a literal string, or the
\* content-derived identifier of a buffer.
NoName == [some |-> FALSE, lit |-> "", hash |-> <<>>]
LitName(s) == [some |-> TRUE, lit |-> s, hash |-> <<>>]

\* The block threshold used when the genesis bundle has no transaction.
DefaultGenesisThreshold == 42
\* The block timeout of the provisional genesis configuration.
GenesisTimeout == 2
\* The provisional network name of the genesis configuration.
BootstrapName == LitName("bootstrap")
\* The static configuration the node is launched with (Config): a network
\* name set by the operator, the default threshold and timeout.
StaticNetwork == LitName("skynet")
DEFAULT_BLOCK_THRESHOLD == 42
DEFAULT_BLOCK_TIMEOUT == 3

\* -------------------------------------------------------- version compare
\* A version string is modelled by its numeric parts; ok = FALSE is a string
\* the comparison cannot parse.
Version(parts) == [ok |-> TRUE, parts |-> parts]
BadVersion == [ok |-> FALSE, parts |-> <<>>]

\* The min_node_version of the provisional genesis configuration ("0.2.6").
GenesisMinVersion == Version(<<0, 2, 6>>)
\* trinci_core::VERSION, the version the stored minimum is compared with.
VERSION == Version(<<0, 2, 7>>)

VersionPart(v, i) == IF i <= Len(v) THEN v[i] ELSE 0

RECURSIVE CmpFrom(_, _, _)
CmpFrom(a, b, i) ==
    IF i > Len(a) /\ i > Len(b) THEN "Eq"
    ELSE IF VersionPart(a, i) < VersionPart(b, i) THEN "Lt"
    ELSE IF VersionPart(a, i) > VersionPart(b, i) THEN "Gt"
    ELSE CmpFrom(a, b, i + 1)

\* version_compare::compare(a, b): Ok(Lt | Eq | Gt), or Err when one of the
\* two strings is no version.
VersionCompare(a, b) ==
    IF ~a.ok \/ ~b.ok THEN "Err" ELSE CmpFrom(a.parts, b.parts, 1)

\* Mutant of VersionAccepted: the two versions are compared the other way round.
VersionAccepted_Swapped(min_node_version) ==
    VersionCompare(min_node_version, VERSION) \in {"Eq", "Gt"}

\* The version check of set_config_from_db: TRUE when startup may go on.
VersionAccepted(min_node_version) ==
    VersionCompare(VERSION, min_node_version) \in {"Eq", "Gt"}

\* ------------------------------------------------------------ genesis file
\* A genesis file is a sequence of bytes.  The record it serializes is
\* length-framed: the number n of transactions, the n transactions, the
\* contract binary, the nonce.  As in MessagePack, the length header has a
\* compact form (n itself) and a wide form (WideArrayHeader + n); the
\* serializer writes the compact one, the deserializer reads both.
WideArrayHeader == 16

File(bytes) == [exists |-> TRUE, bytes |-> bytes]
NoFile == [exists |-> FALSE, bytes |-> <<>>]

Encode(bs) == <<Len(bs.txs)>> \o bs.txs \o <<bs.bin, bs.nonce>>

\* The same record with the wide form of the header.
EncodeWide(bs) == <<WideArrayHeader + Len(bs.txs)>> \o Tail(Encode(bs))

\* The number of transactions a header announces.
HeaderCount(h) == IF h >= WideArrayHeader THEN h - WideArrayHeader ELSE h

\* rmp_deserialize::<Bootstrap>: ok = FALSE on a malformed buffer.
Decode(buf) ==
    IF Len(buf) >= 1 /\ Len(buf) = HeaderCount(buf[1]) + 3
    THEN [ok |-> TRUE,
          txs |-> SubSeq(buf, 2, HeaderCount(buf[1]) + 1),
          bin |-> buf[HeaderCount(buf[1]) + 2],
          nonce |-> buf[HeaderCount(buf[1]) + 3]]
    ELSE [ok |-> FALSE, txs |-> <<>>, bin |-> 0, nonce |-> 0]

\* Mutant of CalculateNetworkName: the identifier is taken from the decoded
\* record, re-encoded, instead of from the bytes read.
CalculateNetworkName_OfDecoded(buf) ==
    [some |-> TRUE, lit |-> "", hash |-> Encode(Decode(buf))]

\* calculate_network_name: base58 of the SHA-256 of the raw bytes.  The digest
\* is kept symbolic: a value determined by the bytes hashed.
CalculateNetworkName(buf) == [some |-> TRUE, lit |-> "", hash |-> buf]

\* The transactions of the model's bundles: n transactions, ids descending,
\* so that their order is visible.
TxSeq(n) == [i \in 1..n |-> 10 + n - i]

Bundle(n) == [txs |-> TxSeq(n), bin |-> 7, nonce |-> 9]

\* The files the node may find at bootstrap_path: none, a truncated one,
\* well-formed bundles of 0..MaxTxs transactions, and the empty bundle written
\* with the wide header.
GenesisFiles ==
    {File(Encode(Bundle(n))) : n \in 0..MaxTxs}
        \cup {File(EncodeWide(Bundle(0))), File(<<MaxTxs, 11>>), NoFile}

\* load_bootstrap_struct_from_file: panics (ok = FALSE) when the file is
\* missing, unreadable or malformed; else the network name, the binary and
\* the transactions.
LoadBootstrapStructFromFile(file) ==
    IF ~file.exists \/ ~Decode(file.bytes).ok
    THEN [ok |-> FALSE, name |-> NoName, bin |-> 0, txs |-> <<>>]
    ELSE [ok |-> TRUE,
          name |-> CalculateNetworkName(file.bytes),
          bin |-> Decode(file.bytes).bin,
          txs |-> Decode(file.bytes).txs]

NotLoaded == [ok |-> FALSE, name |-> NoName, bin |-> 0, txs |-> <<>>]

\* ----------------------------------------------------------------- settings
\* BlockchainSettings (the fields App reads).
Settings(name, threshold, timeout, burn, minv) ==
    [network_name |-> name, block_threshold |-> threshold,
     block_timeout |-> timeout, burning_fuel_method |-> burn,
     min_node_version |-> minv]

\* Mutant of GenesisThreshold: no default for an empty transaction list.
GenesisThreshold_NoDefault(txs) == Len(txs)

\* The provisional settings App::start builds in the genesis branch.
GenesisThreshold(txs) ==
    IF Len(txs) = 0 THEN DefaultGenesisThreshold ELSE Len(txs)

GenesisSettings(txs) ==
    Settings(BootstrapName, GenesisThreshold(txs), GenesisTimeout, "", GenesisMinVersion)

\* A stored value: absent, bytes that do not deserialize, or settings.
Stored(s) == [state |-> "ok", value |-> s]
Absent == [state |-> "absent", value |-> GenesisSettings(<<>>)]
Malformed == [state |-> "malformed", value |-> GenesisSettings(<<>>)]

\* Minimum versions a network's settings may carry.
MinVersions ==
    {Version(<<0, 2, 6>>), Version(<<0, 2, 7, 0>>), Version(<<0, 3>>), BadVersion}

\* Settings the genesis contract may have written under "blockchain:settings"
\* of the system account (the network name embedded there may be absent).
ContractSettings ==
    {Settings(n, 5, 3, "burn", v) :
        n \in {NoName, LitName("embedded")}, v \in {Version(<<0, 2, 6>>), Version(<<0, 3>>)}}

\* Settings found in storage: those an earlier boot of this program has
\* persisted, whose network name is the content-derived name of a genesis
\* file, and settings written without a network name (the field is an Option).
StoredSettings ==
    {Settings(CalculateNetworkName(Encode(Bundle(0))), 5, 3, "burn", v) : v \in MinVersions}
        \cup {Settings(NoName, 5, 3, "burn", Version(<<0, 2, 6>>))}

\* ------------------------------------------------------------------- state
VARIABLES
    procAlive,    \* the process has neither aborted nor exited
    pc,           \* each thread's position
    ret,          \* where the main thread's current helper method returns to
    cfgArg,       \* the settings handed to set_block_service_config
    netName,      \* the main thread's local network_name
    p2pStart,     \* the main thread's local p2p_start
    bootstrap,    \* what load_bootstrap_struct_from_file returned
    svcCfg,       \* what load_config_from_service returned
    startArgs,    \* App::start's _file and _addr are both Some
    stopFlag,     \* park's local stop
    parkIdx,      \* park's position in its list of polls / of stops
    bsLock,       \* the owner of the block_svc mutex
    running,      \* is_running() of each service
    bsConfig,     \* the engine's network name, threshold and timeout
    bsBurn,       \* the engine's burn-fuel method
    bsValidator,  \* the engine's validator predicate: "stub" or "live"
    pool,         \* the engine's unconfirmed pool
    p2pName,      \* the peer service's network name
    dbAccount,    \* storage: the system account is present
    dbSettings,   \* storage: the configuration under "blockchain:settings"
    svcData,      \* storage: the system account's "blockchain:settings" data
    bootstrapFile,\* the file at bootstrap_path
    chanOpen,     \* the Block Request Channel is open
    subscribed,   \* the "bootstrap" subscription is active
    events,       \* messages queued on the subscription's reply channel
    blocks,       \* blocks committed in this run
    noise,        \* unexpected messages delivered in this run
    failures,     \* unexpected stops in this run
    chanErrLogged,\* bootstrap_monitor has logged a channel error
    resolved,     \* what the boot-time resolver query returned
    lastReply,    \* the reply each thread's latest resolver query got
    bsLog,        \* the calls made on the block engine, with their caller
    parkStops,    \* the services park has called stop() on, in order
    tickDown,     \* the services that were not running when park's tick began
    count,        \* how many times each counted call was made
    verdicts,     \* what the Live predicate returned, call after call
    validatorDown,\* a call of the Live predicate has panicked
    monPc,        \* the monitor worker's position
    monCycle,     \* the monitor worker's cycles so far
    monSnapshot,  \* the monitor worker's status snapshot
    monReport,    \* the monitor's report file
    monLog,       \* what the monitor worker did in its last cycle with statistics
    monSvc,       \* the MonitorService: its worker, its handler, what start did
    trPc,         \* the tracer's position
    trEvents,     \* messages queued on the tracer's subscription
    trTxs,        \* the Tracer's txs
    trBegin,      \* the Tracer's begin
    cfgValue,     \* a Config value
    cfgFile,      \* the configuration file
    cfgLoaded,    \* what Config::from_file returned
    cvCall        \* a call of utils::check_version: its arguments, what it logged

\* The state of the predicate, of the monitor worker and of the tracer.
validatorVars == <<verdicts, validatorDown>>
monThread == <<monPc, monCycle, monSnapshot, monReport, monLog>>
monitorVars == <<monThread, monSvc>>
tracerVars == <<trPc, trEvents, trTxs, trBegin>>
configVars == <<cfgValue, cfgFile, cfgLoaded>>
versionVars == <<cvCall>>
workerVars == <<validatorVars, monitorVars, tracerVars, configVars, versionVars>>

vars ==
    <<procAlive, pc, ret, cfgArg, netName, p2pStart, bootstrap, svcCfg, startArgs,
      stopFlag, parkIdx, bsLock, running, bsConfig, bsBurn, bsValidator, pool, p2pName, dbAccount,
      dbSettings, svcData, bootstrapFile, chanOpen, subscribed, events, blocks,
      noise, failures, chanErrLogged, resolved, lastReply, bsLog, parkStops,
      tickDown, count, workerVars>>

\* Variable groups, for UNCHANGED.
localVars ==
    <<ret, cfgArg, netName, p2pStart, bootstrap, svcCfg, startArgs, stopFlag, parkIdx>>
engineVars == <<bsConfig, bsBurn, bsValidator, pool>>
dbVars == <<dbAccount, dbSettings, svcData, bootstrapFile>>
chanVars == <<chanOpen, subscribed, events, chanErrLogged>>
envVars == <<blocks, noise, failures>>
histVars == <<resolved, lastReply, parkStops, tickDown>>

Counted ==
    {"resolver", "genesisLoad", "storeAccount", "storeConfig", "subscribe",
     "unsubscribe", "blockNotified", "versionCheck", "spawn",
     "start_rest", "start_p2p", "start_bridge", "start_monitor"}

\* The monitor's status snapshot (the fields its worker refreshes).
Snapshot(name, last_block, unconfirmed_pool, seed) ==
    [name |-> name, last_block |-> last_block, unconfirmed_pool |-> unconfirmed_pool,
     seed |-> seed]

\* Option<Block> and Option<UnconfirmedPool>.
NoBlock == [some |-> FALSE, height |-> 0]
SomeBlock(h) == [some |-> TRUE, height |-> h]
\* block.hash(HashAlgorithm::Sha256): the digest stays symbolic, one per block.
BlockHash(block) == <<"sha256", block.height>>

\* Option<LastBlock>: LastBlock { block, hash } as update builds it.
NoLastBlock == [some |-> FALSE, height |-> 0, hash |-> <<>>]
LastBlock(block) == [some |-> TRUE, height |-> block.height, hash |-> BlockHash(block)]

NoPool == [some |-> FALSE, hash |-> <<>>, size |-> 0]
SomePool(hash, size) == [some |-> TRUE, hash |-> hash, size |-> size]
\* The digest the engine reports for its unconfirmed queue: symbolic, one per
\* queue (the model's queues differ by their size).
PoolHash(n) == <<"pool", n>>

\* The snapshot App::new builds: the configured network name, no block, no
\* pool, the seed source's first value.
InitialSnapshot == Snapshot(StaticNetwork, NoLastBlock, NoPool, 0)

\* The report file: absent, or holding what save_update wrote (complete =
\* FALSE when a write failed).
NoReport == [exists |-> FALSE, complete |-> FALSE, snapshot |-> InitialSnapshot]
Report(complete, snapshot) == [exists |-> TRUE, complete |-> complete, snapshot |-> snapshot]

\* The record of a cycle that received statistics: its number, the pool hash,
\* pool size and block the statistics carried, last_block before update, the
\* reply its seed request got, what send_update and save_update did. NoCycle
\* before the first.
NoCycle ==
    [n |-> 0, hash |-> <<>>, size |-> 0, block |-> NoBlock, before |-> NoLastBlock,
     seed |-> "none", push |-> "none", saved |-> "none"]

\* ------------------------------------------------------------ config.rs
\* Option<String>.
NoString == [some |-> FALSE, str |-> ""]
SomeString(str) == [some |-> TRUE, str |-> str]

\* Config::default().
ConfigDefault ==
    [log_level |-> "info", keypair_path |-> NoString, network |-> "bootstrap",
     block_threshold |-> DEFAULT_BLOCK_THRESHOLD, block_timeout |-> DEFAULT_BLOCK_TIMEOUT,
     rest_addr |-> "127.0.0.1", rest_port |-> 8000,
     bridge_addr |-> "127.0.0.1", bridge_port |-> 8001,
     p2p_addr |-> "127.0.0.1", p2p_port |-> 0, p2p_bootstrap_addr |-> NoString,
     db_path |-> "db", bootstrap_path |-> "bootstrap.bin", wm_cache_max |-> 10,
     monitor_file |-> "blackbox.info",
     monitor_addr |-> "https://dev.exchange.affidaty.net/api/v1/nodesMonitor/update",
     test_mode |-> FALSE, local_ip |-> NoString, public_ip |-> NoString]

\* tests::create_test_config().
TestConfig ==
    [log_level |-> "debug", keypair_path |-> NoString, network |-> "bootstrap",
     block_threshold |-> 1234, block_timeout |-> 4321,
     rest_addr |-> "1.2.3.4", rest_port |-> 123,
     bridge_addr |-> "5.6.7.8", bridge_port |-> 987,
     p2p_addr |-> "9.1.2.3", p2p_port |-> 0, p2p_bootstrap_addr |-> SomeString("1.0.0.3"),
     db_path |-> "dummy/db/path", bootstrap_path |-> "dummy/boot/path", wm_cache_max |-> 42,
     monitor_file |-> "blackbox.info",
     monitor_addr |-> "https://dev.exchange.affidaty.net/api/v1/nodesMonitor/update",
     test_mode |-> FALSE, local_ip |-> NoString, public_ip |-> NoString]

\* The Config values considered: the test's, with each of eight fields either
\* as the test has it or different.
Configs ==
    {[TestConfig EXCEPT !.log_level = l, !.keypair_path = k, !.network = n,
                        !.block_threshold = b, !.p2p_port = p,
                        !.p2p_bootstrap_addr = a, !.monitor_file = m, !.test_mode = t] :
        l \in {"debug", "info"}, k \in {NoString, SomeString("node.kp")},
        n \in {"bootstrap", "testnet"}, b \in {1234, 1}, p \in {0, 123},
        a \in {SomeString("1.0.0.3"), NoString}, m \in {"blackbox.info", "other.info"},
        t \in BOOLEAN}

\* toml::Value: a string, an integer or a boolean.
TomlStr(str) == [type |-> "str", str |-> str, int |-> 0, bool |-> FALSE]
TomlInt(int) == [type |-> "int", str |-> "", int |-> int, bool |-> FALSE]
TomlBool(bool) == [type |-> "bool", str |-> "", int |-> 0, bool |-> bool]

\* The configuration file: missing, not TOML, or a table of keys.
NoConfigFile == [state |-> "missing", table |-> [k \in {} |-> TomlInt(0)]]
BadConfigFile == [state |-> "bad", table |-> [k \in {} |-> TomlInt(0)]]
TomlFile(table) == [state |-> "toml", table |-> table]

\* Option<Config>.
NoConfig == [some |-> FALSE, config |-> ConfigDefault]
SomeConfig(config) == [some |-> TRUE, config |-> config]

\* The test's Display for Config: the keys it writes, p2p-port between quotes
\* and an absent p2p-bootstrap-addr as the empty string.
Display(config) ==
    [k \in {"validator", "log-level", "network", "block-threshold", "block-timeout",
            "rest-addr", "rest-port", "bridge-addr", "bridge-port", "p2p-addr",
            "p2p-port", "p2p-bootstrap-addr", "db-path", "bootstrap-path",
            "wm-cache-max"} |->
        CASE k = "validator" -> TomlStr("FIXME")
          [] k = "log-level" -> TomlStr(config.log_level)
          [] k = "network" -> TomlStr(config.network)
          [] k = "block-threshold" -> TomlInt(config.block_threshold)
          [] k = "block-timeout" -> TomlInt(config.block_timeout)
          [] k = "rest-addr" -> TomlStr(config.rest_addr)
          [] k = "rest-port" -> TomlInt(config.rest_port)
          [] k = "bridge-addr" -> TomlStr(config.bridge_addr)
          [] k = "bridge-port" -> TomlInt(config.bridge_port)
          [] k = "p2p-addr" -> TomlStr(config.p2p_addr)
          [] k = "p2p-port" -> TomlStr(ToString(config.p2p_port))
          [] k = "p2p-bootstrap-addr" ->
                TomlStr(IF config.p2p_bootstrap_addr.some
                        THEN config.p2p_bootstrap_addr.str ELSE "")
          [] k = "db-path" -> TomlStr(config.db_path)
          [] k = "bootstrap-path" -> TomlStr(config.bootstrap_path)
          [] k = "wm-cache-max" -> TomlInt(config.wm_cache_max)]

\* map.get(key).and_then(as_str / as_integer / as_bool) is Some.
Has(table, key, type) == key \in DOMAIN table /\ table[key].type = type

\* `value as u16`.
AsU16(int) == int % 65536

\* Config::from_file: the defaults for a missing file, nothing for a file that
\* is no TOML, otherwise the defaults overridden by the keys it reads.
FromFile(file) ==
    LET t == file.table
        Str(key, old) == IF Has(t, key, "str") THEN t[key].str ELSE old
        Opt(key, old) == IF Has(t, key, "str") THEN SomeString(t[key].str) ELSE old
        Port(key, old) == IF Has(t, key, "int") THEN AsU16(t[key].int) ELSE old
        Size(key, old) == IF Has(t, key, "int") THEN t[key].int ELSE old
        d == ConfigDefault
    IN  CASE file.state = "missing" -> SomeConfig(d)
          [] file.state = "bad" -> NoConfig
          [] OTHER ->
               SomeConfig(
                 [d EXCEPT
                    !.log_level = Str("log-level", @),
                    !.keypair_path = Opt("keypair-path", @),
                    !.rest_addr = Str("rest-addr", @),
                    !.rest_port = Port("rest-port", @),
                    !.bridge_addr = Str("bridge-addr", @),
                    !.bridge_port = Port("bridge-port", @),
                    !.p2p_addr = Str("p2p-addr", @),
                    !.p2p_port = Port("p2p-port", @),
                    !.p2p_bootstrap_addr = Opt("p2p-bootstrap-addr", @),
                    !.block_threshold = Size("block-threshold", @),
                    !.block_timeout = Port("block-timeout", @),
                    !.db_path = Str("db-path", @),
                    !.bootstrap_path = Str("bootstrap-path", @),
                    !.wm_cache_max = Size("wm-cache-max", @),
                    !.test_mode = IF Has(t, "test-mode", "bool")
                                  THEN t["test-mode"].bool ELSE @,
                    !.local_ip = Opt("local-ip", @),
                    !.public_ip = Opt("public-ip", @)])

\* Outside the test of the configuration file the three hold nothing.
ConfigIdle ==
    /\ cfgValue = NoString
    /\ cfgFile = NoString
    /\ cfgLoaded = NoString

\* No call of check_version.
NoVersionCall == [local |-> <<>>, remote |-> <<>>, logged |-> "idle"]
VersionIdle == cvCall = NoVersionCall

\* MonitorService::new: the worker is held, there is no handler; `spawned`
\* counts the threads start has spawned and `refused` collects the states of
\* the worker thread in which a start found the worker gone.
MonitorServiceNew == [worker |-> TRUE, handler |-> FALSE, spawned |-> 0, refused |-> {}]

\* Mutant of MonitorServiceStart: the worker is not taken out of the service.
MonitorServiceStart_NoTake(svc, thread) ==
    [svc EXCEPT !.handler = TRUE, !.spawned = @ + 1]

\* MonitorService::start: self.worker.take() gives the worker once; without
\* it start warns and returns, with it a thread is spawned and kept in handler.
MonitorServiceStart(svc, thread) ==
    IF svc.worker
    THEN [svc EXCEPT !.worker = FALSE, !.handler = TRUE, !.spawned = @ + 1]
    ELSE [svc EXCEPT !.refused = @ \cup {thread}]

\* The predicate, the monitor worker and the tracer before they run.
ThreadsIdle ==
    /\ verdicts = <<>>
    /\ validatorDown = FALSE
    /\ monPc = "unstarted"
    /\ monCycle = 0
    /\ monSnapshot = InitialSnapshot
    /\ monReport = NoReport
    /\ monLog = NoCycle
    /\ trPc = "unstarted"
    /\ trEvents = <<>>
    /\ trTxs = 0
    /\ trBegin = 0

\* The workers and the monitor service as App::new leaves them.
WorkersIdle == ThreadsIdle /\ monSvc = MonitorServiceNew /\ ConfigIdle /\ VersionIdle

\* The persistent storage a boot may find: a fresh database, a database an
\* interrupted genesis left with the system account and no settings, and the
\* database of an established node.
InitialDbStates ==
    {[account |-> FALSE, settings |-> Absent, data |-> Absent],
     [account |-> TRUE, settings |-> Absent, data |-> Absent]}
        \cup {[account |-> TRUE, settings |-> Stored(s), data |-> Stored(s)] :
                 s \in StoredSettings}

\* App::new: every service handle is built, none is started; the engine holds
\* the static configuration and the stub predicate.
AppNew ==
    /\ procAlive = TRUE
    /\ pc = [t \in Threads |-> IF t = "main" THEN "start_block" ELSE "unspawned"]
    /\ ret = ""
    /\ cfgArg = GenesisSettings(<<>>)
    /\ netName = NoName
    /\ p2pStart = FALSE
    /\ bootstrap = NotLoaded
    /\ svcCfg = Absent
    /\ startArgs \in BOOLEAN
    /\ stopFlag = FALSE
    /\ parkIdx = 1
    /\ bsLock = NoOne
    /\ running = [s \in Services |-> FALSE]
    /\ bsConfig = [network |-> StaticNetwork, threshold |-> DEFAULT_BLOCK_THRESHOLD,
                   timeout |-> DEFAULT_BLOCK_TIMEOUT]
    /\ bsBurn = ""
    /\ bsValidator = "stub"
    /\ pool = <<>>
    /\ p2pName = StaticNetwork
    /\ \E d \in InitialDbStates :
          /\ dbAccount = d.account
          /\ dbSettings = d.settings
          /\ svcData = d.data
    /\ bootstrapFile \in GenesisFiles
    /\ chanOpen = TRUE
    /\ subscribed = FALSE
    /\ events = <<>>
    /\ blocks = 0
    /\ noise = 0
    /\ failures = 0
    /\ chanErrLogged = FALSE
    /\ resolved = "none"
    /\ lastReply = [t \in Threads |-> "none"]
    /\ bsLog = <<>>
    /\ parkStops = <<>>
    /\ tickDown = {}
    /\ count = [c \in Counted |-> 0]

Init == AppNew /\ WorkersIdle

\* ---------------------------------------------------------------- helpers
Goto(t, label) == pc' = [pc EXCEPT ![t] = label]

Bump(c) == count' = [count EXCEPT ![c] = @ + 1]

Logged(t, call) == bsLog' = Append(bsLog, [by |-> t, call |-> call])

\* panic!/unwrap failure on thread t: the main thread's panic ends the
\* process, the spawned thread's panic ends that thread and unwinds its guard.
Panic(t) ==
    /\ pc' = [pc EXCEPT ![t] = "panicked"]
    /\ procAlive' = (t # "main")
    /\ bsLock' = IF bsLock = t THEN NoOne ELSE bsLock

NoPanic == UNCHANGED <<procAlive, bsLock>>

\* Mutant of CanRequest: a request is answered whether the engine runs or not.
CanRequest_Always == TRUE

\* A request on the Block Request Channel gets its reply when the engine runs,
\* and a channel error when the channel is closed.
CanRequest == running["block"] \/ ~chanOpen

\* The replies a GetAccountRequest for the system account may get.
AccountReplies ==
    IF ~chanOpen THEN {"ChannelError"}
    ELSE {IF dbAccount THEN "AccountResponse" ELSE "NotFound",
          "OtherException", "OtherMessage"}

\* is_service_present: the reply's outcome.
IsServicePresent(reply) ==
    CASE reply = "AccountResponse" -> "Established"
      [] reply = "NotFound" -> "Unestablished"
      [] OTHER -> "panic"

\* load_config_from_service: the settings, or Absent for a panic.
LoadConfigFromService(reply, data) ==
    IF reply = "AccountResponse" /\ data.state = "ok" THEN Stored(data.value)
    ELSE Absent

\* ------------------------------------------------- App::start, main thread
\* Mutant of StartBranch: the genesis branch is entered whatever the outcome.
StartBranch_AlwaysGenesis(outcome) == "gen_load"

\* Mutant of StartBranch: an Established outcome sends the main thread back
\* to the resolver query instead of into the Joining branch.
StartBranch_QueryAgain(outcome) == IF outcome = "Established" THEN "resolve" ELSE "gen_load"

\* The branch App::start takes on the resolver's outcome.
StartBranch(outcome) == IF outcome = "Established" THEN "join_cfg" ELSE "gen_load"

\* self.block_svc.lock().start()
StartBlock ==
    /\ procAlive /\ pc["main"] = "start_block" /\ bsLock = NoOne
    /\ running' = [running EXCEPT !["block"] = TRUE]
    /\ Logged("main", "start")
    /\ Goto("main", "resolve")
    /\ NoPanic
    /\ UNCHANGED <<localVars, engineVars, p2pName, dbVars, chanVars, envVars,
                   histVars, count>>
    /\ UNCHANGED workerVars

\* if is_service_present(&chan) { ... } else { ... }
Resolve ==
    /\ procAlive /\ pc["main"] = "resolve" /\ CanRequest
    /\ \E reply \in AccountReplies :
          /\ lastReply' = [lastReply EXCEPT !["main"] = reply]
          /\ IF IsServicePresent(reply) = "panic"
             THEN Panic("main") /\ UNCHANGED resolved
             ELSE /\ Goto("main", StartBranch(IsServicePresent(reply)))
                  /\ resolved' = IsServicePresent(reply)
                  /\ NoPanic
    /\ Bump("resolver")
    /\ UNCHANGED <<localVars, running, engineVars, p2pName, dbVars, chanVars,
                   envVars, parkStops, tickDown, bsLog>>
    /\ UNCHANGED workerVars

\* Mutant of SetConfigFromDbChecks: the network name is not unwrapped before
\* the settings are handed to set_block_service_config.
SetConfigFromDbChecks_NoNameCheck(stored) ==
    /\ stored.state = "ok"
    /\ VersionAccepted(stored.value.min_node_version)

\* set_config_from_db up to its call of set_block_service_config: load and
\* deserialize the stored settings, check the version, take the network name.
SetConfigFromDbChecks(stored) ==
    /\ stored.state = "ok"
    /\ VersionAccepted(stored.value.min_node_version)
    /\ stored.value.network_name.some

SetConfigFromDb(at, next) ==
    /\ procAlive /\ pc["main"] = at /\ bsLock = NoOne
    /\ IF SetConfigFromDbChecks(dbSettings)
       THEN /\ cfgArg' = dbSettings.value
            /\ netName' = dbSettings.value.network_name
            /\ ret' = next
            /\ Goto("main", "sbc_stop")
            /\ NoPanic
       ELSE Panic("main") /\ UNCHANGED <<cfgArg, netName, ret>>
    /\ count' = IF dbSettings.state = "ok"
                THEN [count EXCEPT !["versionCheck"] = @ + 1] ELSE count
    /\ UNCHANGED <<startArgs, p2pStart, bootstrap, svcCfg, stopFlag, parkIdx, running, engineVars,
                   p2pName, dbVars, chanVars, envVars, histVars, bsLog>>
    /\ UNCHANGED workerVars

JoinSetConfigFromDb == SetConfigFromDb("join_cfg", "join_validator")

\* Mutant of SbcStop: the engine is reconfigured without being stopped.
SbcStop_NoStop ==
    /\ procAlive /\ pc["main"] = "sbc_stop" /\ bsLock = NoOne
    /\ Goto("main", "sbc_set_config")
    /\ NoPanic
    /\ UNCHANGED <<localVars, running, engineVars, p2pName, dbVars, chanVars, envVars,
                   histVars, bsLog, count>>
    /\ UNCHANGED workerVars

\* set_block_service_config: four calls, each under its own lock().
SbcStop ==
    /\ procAlive /\ pc["main"] = "sbc_stop" /\ bsLock = NoOne
    /\ running' = [running EXCEPT !["block"] = FALSE]
    /\ Logged("main", "stop")
    /\ Goto("main", "sbc_set_config")
    /\ NoPanic
    /\ UNCHANGED <<localVars, engineVars, p2pName, dbVars, chanVars, envVars,
                   histVars, count>>
    /\ UNCHANGED workerVars

SbcSetBlockConfig ==
    /\ procAlive /\ pc["main"] = "sbc_set_config" /\ bsLock = NoOne
    /\ IF cfgArg.network_name.some
       THEN /\ bsConfig' = [network |-> cfgArg.network_name,
                            threshold |-> cfgArg.block_threshold,
                            timeout |-> cfgArg.block_timeout]
            /\ Logged("main", "set_block_config")
            /\ Goto("main", "sbc_set_burn")
            /\ NoPanic
       ELSE Panic("main") /\ UNCHANGED <<bsConfig, bsLog>>
    /\ UNCHANGED <<localVars, running, bsBurn, bsValidator, pool, p2pName, dbVars,
                   chanVars, envVars, histVars, count>>
    /\ UNCHANGED workerVars

SbcSetBurnFuelMethod ==
    /\ procAlive /\ pc["main"] = "sbc_set_burn" /\ bsLock = NoOne
    /\ bsBurn' = cfgArg.burning_fuel_method
    /\ Logged("main", "set_burn_fuel_method")
    /\ Goto("main", "sbc_start")
    /\ NoPanic
    /\ UNCHANGED <<localVars, running, bsConfig, bsValidator, pool, p2pName, dbVars,
                   chanVars, envVars, histVars, count>>
    /\ UNCHANGED workerVars

SbcStart ==
    /\ procAlive /\ pc["main"] = "sbc_start" /\ bsLock = NoOne
    /\ running' = [running EXCEPT !["block"] = TRUE]
    /\ Logged("main", "start")
    /\ Goto("main", ret)
    /\ NoPanic
    /\ UNCHANGED <<localVars, engineVars, p2pName, dbVars, chanVars, envVars,
                   histVars, count>>
    /\ UNCHANGED workerVars

\* let is_validator = is_validator_function_call(..);
\* self.set_block_service_is_validator(is_validator)
CallSetValidator(at, next) ==
    /\ procAlive /\ pc["main"] = at /\ bsLock = NoOne
    /\ ret' = next
    /\ Goto("main", "siv_stop")
    /\ NoPanic
    /\ UNCHANGED <<startArgs, cfgArg, netName, p2pStart, bootstrap, svcCfg, stopFlag, parkIdx, running,
                   engineVars, p2pName, dbVars, chanVars, envVars, histVars, bsLog,
                   count>>
    /\ UNCHANGED workerVars

JoinValidator == CallSetValidator("join_validator", "join_p2p_name")

\* set_block_service_is_validator: three calls, each under its own lock().
SivStop ==
    /\ procAlive /\ pc["main"] = "siv_stop" /\ bsLock = NoOne
    /\ running' = [running EXCEPT !["block"] = FALSE]
    /\ Logged("main", "stop")
    /\ Goto("main", "siv_set")
    /\ NoPanic
    /\ UNCHANGED <<localVars, engineVars, p2pName, dbVars, chanVars, envVars,
                   histVars, count>>
    /\ UNCHANGED workerVars

SivSetValidator ==
    /\ procAlive /\ pc["main"] = "siv_set" /\ bsLock = NoOne
    /\ bsValidator' = "live"
    /\ Logged("main", "set_validator")
    /\ Goto("main", "siv_start")
    /\ NoPanic
    /\ UNCHANGED <<localVars, running, bsConfig, bsBurn, pool, p2pName, dbVars,
                   chanVars, envVars, histVars, count>>
    /\ UNCHANGED workerVars

SivStart ==
    /\ procAlive /\ pc["main"] = "siv_start" /\ bsLock = NoOne
    /\ running' = [running EXCEPT !["block"] = TRUE]
    /\ Logged("main", "start")
    /\ Goto("main", ret)
    /\ NoPanic
    /\ UNCHANGED <<localVars, engineVars, p2pName, dbVars, chanVars, envVars,
                   histVars, count>>
    /\ UNCHANGED workerVars

\* self.p2p_svc.lock().set_network_name(network_name); p2p_start = true
SetP2pName(at) ==
    /\ procAlive /\ pc["main"] = at
    /\ p2pName' = netName
    /\ p2pStart' = TRUE
    /\ Goto("main", "start_rest")
    /\ NoPanic
    /\ UNCHANGED <<startArgs, ret, cfgArg, netName, bootstrap, svcCfg, stopFlag, parkIdx, running,
                   engineVars, dbVars, chanVars, envVars, histVars, bsLog, count>>
    /\ UNCHANGED workerVars

JoinP2pName == SetP2pName("join_p2p_name")

\* ---------------------------------------------- App::start, genesis branch
\* let (good_network_name, bootstrap_bin, bootstrap_txs) =
\*     load_bootstrap_struct_from_file(&self.bootstrap_path)
GenLoad ==
    /\ procAlive /\ pc["main"] = "gen_load"
    /\ bootstrap' = LoadBootstrapStructFromFile(bootstrapFile)
    /\ IF bootstrap'.ok
       THEN Goto("main", "gen_store_account") /\ NoPanic
       ELSE Panic("main")
    /\ Bump("genesisLoad")
    /\ UNCHANGED <<startArgs, ret, cfgArg, netName, p2pStart, svcCfg, stopFlag, parkIdx, running,
                   engineVars, p2pName, dbVars, chanVars, envVars, histVars, bsLog>>
    /\ UNCHANGED workerVars

\* self.store_service_account(db, bootstrap_bin)
StoreServiceAccount ==
    /\ procAlive /\ pc["main"] = "gen_store_account"
    /\ dbAccount' = TRUE
    /\ Bump("storeAccount")
    /\ Goto("main", "gen_cfg")
    /\ NoPanic
    /\ UNCHANGED <<localVars, running, engineVars, p2pName, dbSettings, svcData,
                   bootstrapFile, chanVars, envVars, histVars, bsLog>>
    /\ UNCHANGED workerVars

\* self.set_block_service_config(BlockchainSettings { .. "bootstrap" .. })
GenSetConfig ==
    /\ procAlive /\ pc["main"] = "gen_cfg"
    /\ cfgArg' = GenesisSettings(bootstrap.txs)
    /\ ret' = "gen_branch"
    /\ Goto("main", "sbc_stop")
    /\ NoPanic
    /\ UNCHANGED <<startArgs, netName, p2pStart, bootstrap, svcCfg, stopFlag, parkIdx, running,
                   engineVars, p2pName, dbVars, chanVars, envVars, histVars, bsLog,
                   count>>
    /\ UNCHANGED workerVars

\* Mutant of RunsOnSpawnedThread: the thread is spawned whatever the bundle.
RunsOnSpawnedThread_Always(txs) == TRUE

\* if bootstrap_txs.is_empty(): the bootstrap-monitor procedure and what
\* follows it run on a spawned thread.
RunsOnSpawnedThread(txs) == Len(txs) = 0

\* std::thread::spawn(move || { .. }); p2p_start = false
SpawnBootstrapThread ==
    /\ procAlive /\ pc["main"] = "gen_branch" /\ bsLock = NoOne
    /\ RunsOnSpawnedThread(bootstrap.txs)
    /\ pc' = [pc EXCEPT !["main"] = "start_rest", !["boot"] = "bm_subscribe"]
    /\ p2pStart' = FALSE
    /\ Bump("spawn")
    /\ NoPanic
    /\ UNCHANGED <<startArgs, ret, cfgArg, netName, bootstrap, svcCfg, stopFlag, parkIdx, running,
                   engineVars, p2pName, dbVars, chanVars, envVars, histVars, bsLog>>
    /\ UNCHANGED workerVars

\* else { self.put_txs_in_the_pool(bootstrap_txs); bootstrap_monitor(..) .. }
GenInline ==
    /\ procAlive /\ pc["main"] = "gen_branch"
    /\ ~RunsOnSpawnedThread(bootstrap.txs)
    /\ ret' = "bm_subscribe"
    /\ Goto("main", "ptx_stop")
    /\ NoPanic
    /\ UNCHANGED <<startArgs, cfgArg, netName, p2pStart, bootstrap, svcCfg, stopFlag, parkIdx,
                   running, engineVars, p2pName, dbVars, chanVars, envVars, histVars,
                   bsLog, count>>
    /\ UNCHANGED workerVars

\* put_txs_in_the_pool: three calls, each under its own lock().
PtxStop ==
    /\ procAlive /\ pc["main"] = "ptx_stop" /\ bsLock = NoOne
    /\ running' = [running EXCEPT !["block"] = FALSE]
    /\ Logged("main", "stop")
    /\ Goto("main", "ptx_put")
    /\ NoPanic
    /\ UNCHANGED <<localVars, engineVars, p2pName, dbVars, chanVars, envVars,
                   histVars, count>>
    /\ UNCHANGED workerVars

\* put_txs(txs): the transactions join the pool in the order given.
PutTxs(p, txs) == p \o txs

PtxPutTxs ==
    /\ procAlive /\ pc["main"] = "ptx_put" /\ bsLock = NoOne
    /\ pool' = PutTxs(pool, bootstrap.txs)
    /\ Logged("main", "put_txs")
    /\ Goto("main", "ptx_start")
    /\ NoPanic
    /\ UNCHANGED <<localVars, running, bsConfig, bsBurn, bsValidator, p2pName, dbVars,
                   chanVars, envVars, histVars, count>>
    /\ UNCHANGED workerVars

PtxStart ==
    /\ procAlive /\ pc["main"] = "ptx_start" /\ bsLock = NoOne
    /\ running' = [running EXCEPT !["block"] = TRUE]
    /\ Logged("main", "start")
    /\ Goto("main", ret)
    /\ NoPanic
    /\ UNCHANGED <<localVars, engineVars, p2pName, dbVars, chanVars, envVars,
                   histVars, count>>
    /\ UNCHANGED workerVars

\* ------------------------------------------------------- bootstrap_monitor
\* Where bootstrap_monitor returns to: the inline tail of App::start, or the
\* rest of the spawned closure.
BmReturn(t) == IF t = "main" THEN "inl_load_config" ELSE "bt_lock"

\* chan.send_sync(Message::Subscribe { id: "bootstrap", .. }).unwrap()
BmSubscribe(t) ==
    /\ procAlive /\ pc[t] = "bm_subscribe"
    /\ IF chanOpen
       THEN /\ subscribed' = TRUE
            /\ Bump("subscribe")
            /\ Goto(t, "bm_recv")
            /\ NoPanic
       ELSE Panic(t) /\ UNCHANGED <<subscribed, count>>
    /\ UNCHANGED <<localVars, running, engineVars, p2pName, dbVars, chanOpen, events,
                   chanErrLogged, envVars, histVars, bsLog>>
    /\ UNCHANGED workerVars

\* Mutant of BmOnMessage: any message that is no block notification ends the loop.
BmOnMessage_BreakOnAny(msg) == IF msg = "block" THEN "bm_check" ELSE "bm_unsub"

\* What the loop does with a message of the subscription.
BmOnMessage(msg) == IF msg = "block" THEN "bm_check" ELSE "bm_recv"

\* loop { match res_chan.recv_sync() { .. } }: one received message, or the
\* error of a closed channel, which is logged before the loop goes round.
BmRecv(t) ==
    /\ procAlive /\ pc[t] = "bm_recv"
    /\ \/ /\ events # <<>>
          /\ events' = Tail(events)
          /\ Goto(t, BmOnMessage(Head(events)))
          /\ count' = IF Head(events) = "block"
                      THEN [count EXCEPT !["blockNotified"] = @ + 1] ELSE count
          /\ UNCHANGED chanErrLogged
       \/ /\ events = <<>> /\ ~chanOpen
          /\ chanErrLogged' = TRUE
          /\ UNCHANGED <<events, pc, count>>
    /\ NoPanic
    /\ UNCHANGED <<localVars, running, engineVars, p2pName, dbVars, chanOpen,
                   subscribed, envVars, histVars, bsLog>>
    /\ UNCHANGED workerVars

\* Mutant of BmOnBlock: the monitor breaks out of its loop on the first block
\* notification, whatever the resolver answers.
BmOnBlock_AlwaysBreak(outcome) == "bm_unsub"

\* On a block notification: break when the account is there, panic when not.
BmOnBlock(outcome) == IF outcome = "Established" THEN "bm_unsub" ELSE "panic"

\* if is_service_present(&chan) { break } else { panic!(..) }
BmCheck(t) ==
    /\ procAlive /\ pc[t] = "bm_check" /\ CanRequest
    /\ \E reply \in AccountReplies :
          /\ lastReply' = [lastReply EXCEPT ![t] = reply]
          /\ IF BmOnBlock(IsServicePresent(reply)) = "panic"
             THEN Panic(t)
             ELSE Goto(t, BmOnBlock(IsServicePresent(reply))) /\ NoPanic
    /\ Bump("resolver")
    /\ UNCHANGED <<localVars, running, engineVars, p2pName, dbVars, chanVars, envVars,
                   resolved, parkStops, tickDown, bsLog>>
    /\ UNCHANGED workerVars

\* chan.send_sync(Message::Unsubscribe { id: "bootstrap", .. }).unwrap()
BmUnsubscribe(t) ==
    /\ procAlive /\ pc[t] = "bm_unsub"
    /\ IF chanOpen
       THEN /\ subscribed' = FALSE
            /\ Bump("unsubscribe")
            /\ Goto(t, BmReturn(t))
            /\ NoPanic
       ELSE Panic(t) /\ UNCHANGED <<subscribed, count>>
    /\ UNCHANGED <<localVars, running, engineVars, p2pName, dbVars, chanOpen, events,
                   chanErrLogged, envVars, histVars, bsLog>>
    /\ UNCHANGED workerVars

\* ------------------------------------- App::start, inline genesis tail
\* Mutant of FinalSettings: the network name read from the account is kept.
FinalSettings_KeepEmbedded(cfg, good_network_name) == cfg

\* The settings to use after genesis: those read from the system account,
\* with the network name overwritten by the content-derived one.
FinalSettings(cfg, good_network_name) == [cfg EXCEPT !.network_name = good_network_name]

\* let mut config = load_config_from_service(&chan)
InlLoadConfig ==
    /\ procAlive /\ pc["main"] = "inl_load_config" /\ CanRequest
    /\ \E reply \in AccountReplies :
          /\ svcCfg' = LoadConfigFromService(reply, svcData)
          /\ IF svcCfg'.state = "ok"
             THEN Goto("main", "inl_store") /\ NoPanic
             ELSE Panic("main")
    /\ UNCHANGED <<startArgs, ret, cfgArg, netName, p2pStart, bootstrap, stopFlag, parkIdx,
                   running, engineVars, p2pName, dbVars, chanVars, envVars, histVars,
                   bsLog, count>>
    /\ UNCHANGED workerVars

\* config.network_name = Some(good_network_name);
\* self.store_config_into_db(config)
InlStoreConfig ==
    /\ procAlive /\ pc["main"] = "inl_store" /\ bsLock = NoOne
    /\ dbSettings' = Stored(FinalSettings(svcCfg.value, bootstrap.name))
    /\ Logged("main", "store_config_into_db")
    /\ Bump("storeConfig")
    /\ Goto("main", "inl_cfg")
    /\ NoPanic
    /\ UNCHANGED <<localVars, running, engineVars, p2pName, dbAccount, svcData,
                   bootstrapFile, chanVars, envVars, histVars>>
    /\ UNCHANGED workerVars

InlSetConfigFromDb == SetConfigFromDb("inl_cfg", "inl_validator")

InlValidator == CallSetValidator("inl_validator", "inl_p2p_name")

InlP2pName == SetP2pName("inl_p2p_name")

\* ------------------------------------------- App::start, starting services
\* start() of a service handle.
ServiceStart(s) == running' = [running EXCEPT ![s] = TRUE]

\* self.rest_svc.start()
StartRest ==
    /\ procAlive /\ pc["main"] = "start_rest"
    /\ ServiceStart("rest")
    /\ Bump("start_rest")
    /\ Goto("main", "start_p2p")
    /\ NoPanic
    /\ UNCHANGED <<localVars, engineVars, p2pName, dbVars, chanVars, envVars,
                   histVars, bsLog>>
    /\ UNCHANGED workerVars

\* Mutant of StartP2p: the peer service is started whatever p2p_start holds.
StartP2p_Unconditional ==
    /\ procAlive /\ pc["main"] = "start_p2p"
    /\ ServiceStart("p2p") /\ Bump("start_p2p")
    /\ Goto("main", "start_bridge")
    /\ NoPanic
    /\ UNCHANGED <<localVars, engineVars, p2pName, dbVars, chanVars, envVars,
                   histVars, bsLog>>
    /\ UNCHANGED workerVars

\* if p2p_start { self.p2p_svc.lock().start() }
StartP2p ==
    /\ procAlive /\ pc["main"] = "start_p2p"
    /\ IF p2pStart
       THEN ServiceStart("p2p") /\ Bump("start_p2p")
       ELSE UNCHANGED <<running, count>>
    /\ Goto("main", "start_bridge")
    /\ NoPanic
    /\ UNCHANGED <<localVars, engineVars, p2pName, dbVars, chanVars, envVars,
                   histVars, bsLog>>
    /\ UNCHANGED workerVars

\* self.bridge_svc.start()
StartBridge ==
    /\ procAlive /\ pc["main"] = "start_bridge"
    /\ ServiceStart("bridge")
    /\ Bump("start_bridge")
    /\ Goto("main", "start_monitor")
    /\ NoPanic
    /\ UNCHANGED <<localVars, engineVars, p2pName, dbVars, chanVars, envVars,
                   histVars, bsLog>>
    /\ UNCHANGED workerVars

\* _addr.unwrap(), _file.unwrap(), then
\* self.monitor_svc.as_mut().unwrap().start(addr, file); App::start returns
\* and main calls app.park().
StartMonitor ==
    /\ procAlive /\ pc["main"] = "start_monitor"
    /\ IF startArgs
       THEN /\ running' = IF monSvc.worker THEN [running EXCEPT !["monitor"] = TRUE]
                           ELSE running
            /\ Bump("start_monitor")
            /\ Goto("main", "park_poll")
            /\ NoPanic
       ELSE Panic("main") /\ UNCHANGED <<running, count>>
    /\ monSvc' = IF startArgs THEN MonitorServiceStart(monSvc, "alive") ELSE monSvc
    /\ UNCHANGED <<localVars, engineVars, p2pName, dbVars, chanVars, envVars,
                   histVars, bsLog>>
    /\ UNCHANGED <<validatorVars, monThread, tracerVars, configVars, versionVars>>

\* ---------------------------------------- the spawned bootstrap thread
\* let mut bs = block_svc.lock(): held to the end of the closure.
BtLock ==
    /\ procAlive /\ pc["boot"] = "bt_lock" /\ bsLock = NoOne
    /\ bsLock' = "boot"
    /\ Goto("boot", "bt_load_config")
    /\ UNCHANGED <<procAlive, localVars, running, engineVars, p2pName, dbVars,
                   chanVars, envVars, histVars, bsLog, count>>
    /\ UNCHANGED workerVars

\* let mut config = load_config_from_service(&chan.clone());
\* config.network_name = Some(good_network_name)
BtLoadConfig ==
    /\ procAlive /\ pc["boot"] = "bt_load_config" /\ CanRequest
    /\ \E reply \in AccountReplies :
          /\ svcCfg' = LoadConfigFromService(reply, svcData)
          /\ IF svcCfg'.state = "ok"
             THEN Goto("boot", "bt_stop") /\ NoPanic
             ELSE Panic("boot")
    /\ UNCHANGED <<startArgs, ret, cfgArg, netName, p2pStart, bootstrap, stopFlag, parkIdx,
                   running, engineVars, p2pName, dbVars, chanVars, envVars, histVars,
                   bsLog, count>>
    /\ UNCHANGED workerVars

\* Mutant of BtStop: the guard on the engine is given up with the stop.
BtStop_Unlocked ==
    /\ procAlive /\ pc["boot"] = "bt_stop" /\ bsLock = "boot"
    /\ running' = [running EXCEPT !["block"] = FALSE]
    /\ Logged("boot", "stop")
    /\ Goto("boot", "bt_set_config")
    /\ bsLock' = NoOne
    /\ UNCHANGED <<procAlive, localVars, engineVars, p2pName, dbVars, chanVars, envVars,
                   histVars, count>>
    /\ UNCHANGED workerVars

\* bs.stop()
BtStop ==
    /\ procAlive /\ pc["boot"] = "bt_stop" /\ bsLock = "boot"
    /\ running' = [running EXCEPT !["block"] = FALSE]
    /\ Logged("boot", "stop")
    /\ Goto("boot", "bt_set_config")
    /\ NoPanic
    /\ UNCHANGED <<localVars, engineVars, p2pName, dbVars, chanVars, envVars,
                   histVars, count>>
    /\ UNCHANGED workerVars

\* bs.set_block_config(net_name.clone(), config.block_threshold, config.block_timeout)
BtSetBlockConfig ==
    /\ procAlive /\ pc["boot"] = "bt_set_config" /\ bsLock = "boot"
    /\ bsConfig' = [network |-> FinalSettings(svcCfg.value, bootstrap.name).network_name,
                    threshold |-> svcCfg.value.block_threshold,
                    timeout |-> svcCfg.value.block_timeout]
    /\ Logged("boot", "set_block_config")
    /\ Goto("boot", "bt_set_burn")
    /\ NoPanic
    /\ UNCHANGED <<localVars, running, bsBurn, bsValidator, pool, p2pName, dbVars,
                   chanVars, envVars, histVars, count>>
    /\ UNCHANGED workerVars

\* bs.set_burn_fuel_method(config.burning_fuel_method.clone())
BtSetBurnFuelMethod ==
    /\ procAlive /\ pc["boot"] = "bt_set_burn" /\ bsLock = "boot"
    /\ bsBurn' = svcCfg.value.burning_fuel_method
    /\ Logged("boot", "set_burn_fuel_method")
    /\ Goto("boot", "bt_store")
    /\ NoPanic
    /\ UNCHANGED <<localVars, running, bsConfig, bsValidator, pool, p2pName, dbVars,
                   chanVars, envVars, histVars, count>>
    /\ UNCHANGED workerVars

\* Mutant of BtStoreConfig: the bootstrap thread does not persist the settings.
BtStoreConfig_Skipped ==
    /\ procAlive /\ pc["boot"] = "bt_store" /\ bsLock = "boot"
    /\ Goto("boot", "bt_set_validator")
    /\ NoPanic
    /\ UNCHANGED <<localVars, running, engineVars, p2pName, dbVars, chanVars, envVars,
                   histVars, bsLog, count>>
    /\ UNCHANGED workerVars

\* bs.store_config_into_db(config)
BtStoreConfig ==
    /\ procAlive /\ pc["boot"] = "bt_store" /\ bsLock = "boot"
    /\ dbSettings' = Stored(FinalSettings(svcCfg.value, bootstrap.name))
    /\ Logged("boot", "store_config_into_db")
    /\ Bump("storeConfig")
    /\ Goto("boot", "bt_set_validator")
    /\ NoPanic
    /\ UNCHANGED <<localVars, running, engineVars, p2pName, dbAccount, svcData,
                   bootstrapFile, chanVars, envVars, histVars>>
    /\ UNCHANGED workerVars

\* bs.set_validator(is_validator_function_call(..))
BtSetValidator ==
    /\ procAlive /\ pc["boot"] = "bt_set_validator" /\ bsLock = "boot"
    /\ bsValidator' = "live"
    /\ Logged("boot", "set_validator")
    /\ Goto("boot", "bt_start")
    /\ NoPanic
    /\ UNCHANGED <<localVars, running, bsConfig, bsBurn, pool, p2pName, dbVars,
                   chanVars, envVars, histVars, count>>
    /\ UNCHANGED workerVars

\* bs.start()
BtStart ==
    /\ procAlive /\ pc["boot"] = "bt_start" /\ bsLock = "boot"
    /\ running' = [running EXCEPT !["block"] = TRUE]
    /\ Logged("boot", "start")
    /\ Goto("boot", "bt_p2p_name")
    /\ NoPanic
    /\ UNCHANGED <<localVars, engineVars, p2pName, dbVars, chanVars, envVars,
                   histVars, count>>
    /\ UNCHANGED workerVars

\* Mutant of BtP2pName: the bootstrap thread leaves the peer service's name
\* as it is.
BtP2pName_KeepStatic ==
    /\ procAlive /\ pc["boot"] = "bt_p2p_name"
    /\ Goto("boot", "bt_p2p_start")
    /\ NoPanic
    /\ UNCHANGED <<localVars, running, engineVars, p2pName, dbVars, chanVars, envVars,
                   histVars, bsLog, count>>
    /\ UNCHANGED workerVars

\* p2p_svc.lock().set_network_name(net_name)
BtP2pName ==
    /\ procAlive /\ pc["boot"] = "bt_p2p_name"
    /\ p2pName' = FinalSettings(svcCfg.value, bootstrap.name).network_name
    /\ Goto("boot", "bt_p2p_start")
    /\ NoPanic
    /\ UNCHANGED <<localVars, running, engineVars, dbVars, chanVars, envVars,
                   histVars, bsLog, count>>
    /\ UNCHANGED workerVars

\* p2p_svc.lock().start(); the closure ends and drops the guard bs.
BtP2pStart ==
    /\ procAlive /\ pc["boot"] = "bt_p2p_start" /\ bsLock = "boot"
    /\ ServiceStart("p2p")
    /\ Bump("start_p2p")
    /\ bsLock' = NoOne
    /\ Goto("boot", "done")
    /\ UNCHANGED <<procAlive, localVars, engineVars, p2pName, dbVars, chanVars,
                   envVars, histVars, bsLog>>
    /\ UNCHANGED workerVars

\* ------------------------------------------------------------- App::park
\* Mutant of PolledServices: the read of the bridge service is left out too.
PolledServices_NoBridge == <<"block", "rest", "monitor">>

\* The services whose is_running() park reads at each tick, in order (the
\* read of the peer service is commented out in the source).
PolledServices == <<"block", "rest", "bridge", "monitor">>

\* Mutant of StopOrder: REST is stopped before the block engine.
StopOrder_Swapped == <<"rest", "block", "p2p", "bridge", "monitor">>

\* The services park calls stop() on once a poll has found one not running.
StopOrder == <<"block", "rest", "p2p", "bridge", "monitor">>

\* stop() of a service handle; MonitorService::stop does nothing.
ServiceStop(s) == IF s = "monitor" THEN running ELSE [running EXCEPT ![s] = FALSE]

\* Mutant of ParkPoll: every read sets stop.
ParkPoll_AlwaysStop ==
    /\ procAlive /\ pc["main"] = "park_poll"
    /\ PolledServices[parkIdx] = "block" => bsLock = NoOne
    /\ stopFlag' = TRUE
    /\ IF parkIdx < Len(PolledServices)
       THEN parkIdx' = parkIdx + 1 /\ UNCHANGED pc
       ELSE /\ parkIdx' = 1
            /\ Goto("main", IF stopFlag' THEN "park_stop" ELSE "park_poll")
    /\ tickDown' = IF parkIdx = 1 THEN {s \in Services : ~running[s]} ELSE tickDown
    /\ NoPanic
    /\ UNCHANGED <<startArgs, ret, cfgArg, netName, p2pStart, bootstrap, svcCfg, running,
                   engineVars, p2pName, dbVars, chanVars, envVars, resolved, lastReply,
                   parkStops, bsLog, count>>
    /\ UNCHANGED workerVars

\* One is_running() read of a tick; after the last one, if stop { .. }.
ParkPoll ==
    /\ procAlive /\ pc["main"] = "park_poll"
    /\ PolledServices[parkIdx] = "block" => bsLock = NoOne
    /\ stopFlag' = ((parkIdx > 1 /\ stopFlag) \/ ~running[PolledServices[parkIdx]])
    /\ IF parkIdx < Len(PolledServices)
       THEN parkIdx' = parkIdx + 1 /\ UNCHANGED pc
       ELSE /\ parkIdx' = 1
            /\ Goto("main", IF stopFlag' THEN "park_stop" ELSE "park_poll")
    /\ tickDown' = IF parkIdx = 1 THEN {s \in Services : ~running[s]} ELSE tickDown
    /\ NoPanic
    /\ UNCHANGED <<startArgs, ret, cfgArg, netName, p2pStart, bootstrap, svcCfg, running,
                   engineVars, p2pName, dbVars, chanVars, envVars, resolved, lastReply,
                   parkStops, bsLog, count>>
    /\ UNCHANGED workerVars

\* One stop() call of the shutdown; after the last one, break.
ParkStop ==
    /\ procAlive /\ pc["main"] = "park_stop"
    /\ StopOrder[parkIdx] = "block" => bsLock = NoOne
    /\ running' = ServiceStop(StopOrder[parkIdx])
    /\ parkStops' = Append(parkStops, StopOrder[parkIdx])
    /\ bsLog' = IF StopOrder[parkIdx] = "block"
                THEN Append(bsLog, [by |-> "park", call |-> "stop"]) ELSE bsLog
    /\ IF parkIdx < Len(StopOrder)
       THEN parkIdx' = parkIdx + 1 /\ UNCHANGED pc
       ELSE parkIdx' = 1 /\ Goto("main", "park_returned")
    /\ NoPanic
    /\ UNCHANGED <<startArgs, ret, cfgArg, netName, p2pStart, bootstrap, svcCfg, stopFlag,
                   engineVars, p2pName, dbVars, chanVars, envVars, resolved, lastReply,
                   tickDown, count>>
    /\ UNCHANGED workerVars

\* park returns, main returns: the process exits.
MainExit ==
    /\ procAlive /\ pc["main"] = "park_returned"
    /\ procAlive' = FALSE
    /\ Goto("main", "exited")
    /\ UNCHANGED <<bsLock, localVars, running, engineVars, p2pName, dbVars, chanVars,
                   envVars, histVars, bsLog, count>>
    /\ UNCHANGED workerVars

\* ------------------------------------------------------------ environment
\* What the block engine's commit does to the pool: up to threshold
\* transactions leave it.
AfterBlock(p, threshold) ==
    IF Len(p) <= threshold THEN <<>> ELSE SubSeq(p, threshold + 1, Len(p))

\* The running engine commits a block: subscribers are notified, and the
\* transactions executed may have written the settings of the system account.
EngineCommitBlock ==
    /\ procAlive /\ running["block"] /\ blocks < MaxBlocks
    /\ blocks' = blocks + 1
    /\ pool' = AfterBlock(pool, bsConfig.threshold)
    /\ events' = IF subscribed THEN Append(events, "block") ELSE events
    /\ svcData' \in (IF dbAccount
                     THEN {svcData, Malformed} \cup {Stored(c) : c \in ContractSettings}
                     ELSE {svcData})
    /\ UNCHANGED <<procAlive, pc, bsLock, localVars, running, bsConfig, bsBurn,
                   bsValidator, p2pName, dbAccount, dbSettings, bootstrapFile, chanOpen,
                   subscribed, chanErrLogged, noise, failures, histVars, bsLog, count>>
    /\ UNCHANGED workerVars

\* A message that is no block notification reaches the subscriber.
UnexpectedMessage ==
    /\ procAlive /\ subscribed /\ running["block"] /\ noise < MaxNoise
    /\ noise' = noise + 1
    /\ events' = Append(events, "other")
    /\ UNCHANGED <<procAlive, pc, bsLock, localVars, running, engineVars, p2pName,
                   dbVars, chanOpen, subscribed, chanErrLogged, blocks, failures,
                   histVars, bsLog, count>>
    /\ UNCHANGED workerVars

\* A running service stops on its own.
ServiceFails(s) ==
    /\ procAlive /\ running[s] /\ failures < MaxFailures
    /\ failures' = failures + 1
    /\ running' = [running EXCEPT ![s] = FALSE]
    /\ UNCHANGED <<procAlive, pc, bsLock, localVars, engineVars, p2pName, dbVars,
                   chanVars, blocks, noise, histVars, bsLog, count>>
    /\ UNCHANGED workerVars

\* The Block Request Channel closes.
ChannelCloses ==
    /\ procAlive /\ chanOpen /\ failures < MaxFailures
    /\ failures' = failures + 1
    /\ chanOpen' = FALSE
    /\ UNCHANGED <<procAlive, pc, bsLock, localVars, running, engineVars, p2pName,
                   dbVars, subscribed, events, chanErrLogged, blocks, noise, histVars,
                   bsLog, count>>
    /\ UNCHANGED workerVars

\* ---------------------------------------------------------- specification
MainStart ==
    \/ StartBlock \/ Resolve
    \/ JoinSetConfigFromDb \/ JoinValidator \/ JoinP2pName
    \/ SbcStop \/ SbcSetBlockConfig \/ SbcSetBurnFuelMethod \/ SbcStart
    \/ SivStop \/ SivSetValidator \/ SivStart
    \/ GenLoad \/ StoreServiceAccount \/ GenSetConfig
    \/ SpawnBootstrapThread \/ GenInline
    \/ PtxStop \/ PtxPutTxs \/ PtxStart
    \/ BmSubscribe("main") \/ BmRecv("main") \/ BmCheck("main") \/ BmUnsubscribe("main")
    \/ InlLoadConfig \/ InlStoreConfig \/ InlSetConfigFromDb \/ InlValidator
    \/ InlP2pName
    \/ StartRest \/ StartP2p \/ StartBridge \/ StartMonitor

MainPark == ParkPoll \/ ParkStop \/ MainExit

BootThread ==
    \/ BmSubscribe("boot") \/ BmRecv("boot") \/ BmCheck("boot") \/ BmUnsubscribe("boot")
    \/ BtLock \/ BtLoadConfig \/ BtStop \/ BtSetBlockConfig \/ BtSetBurnFuelMethod
    \/ BtStoreConfig \/ BtSetValidator \/ BtStart \/ BtP2pName \/ BtP2pStart

Environment ==
    \/ EngineCommitBlock
    \/ UnexpectedMessage
    \/ \E s \in Services : ServiceFails(s)
    \/ ChannelCloses

Next == MainStart \/ MainPark \/ BootThread \/ Environment

Spec == Init /\ [][Next]_vars

\* ============================================ workers of a running node
\* The settings of the network the node below has joined.
JoinedSettings ==
    Settings(CalculateNetworkName(Encode(Bundle(0))), 5, 3, "burn", Version(<<0, 2, 6>>))

\* What the Joining path of App::start has done when it comes to start the
\* monitor service (line 555): engine reconfigured, the other services started.
Joined ==
    /\ procAlive = TRUE
    /\ ret = "join_p2p_name"
    /\ cfgArg = JoinedSettings
    /\ netName = JoinedSettings.network_name
    /\ p2pStart = TRUE
    /\ bootstrap = NotLoaded
    /\ svcCfg = Absent
    /\ startArgs = TRUE
    /\ stopFlag = FALSE
    /\ parkIdx = 1
    /\ bsLock = NoOne
    /\ bsConfig = [network |-> JoinedSettings.network_name,
                   threshold |-> JoinedSettings.block_threshold,
                   timeout |-> JoinedSettings.block_timeout]
    /\ bsBurn = JoinedSettings.burning_fuel_method
    /\ bsValidator = "live"
    /\ pool = <<>>
    /\ p2pName = JoinedSettings.network_name
    /\ dbAccount = TRUE
    /\ dbSettings = Stored(JoinedSettings)
    /\ svcData = Stored(JoinedSettings)
    /\ bootstrapFile = NoFile
    /\ chanOpen = TRUE
    /\ subscribed = FALSE
    /\ events = <<>>
    /\ blocks = 0
    /\ noise = 0
    /\ failures = 0
    /\ chanErrLogged = FALSE
    /\ resolved = "Established"
    /\ lastReply = [t \in Threads |-> IF t = "main" THEN "AccountResponse" ELSE "none"]
    /\ bsLog = [i \in 1..8 |->
                   [by |-> "main",
                    call |-> <<"start", "stop", "set_block_config", "set_burn_fuel_method",
                               "start", "stop", "set_validator", "start">>[i]]]
    /\ parkStops = <<>>
    /\ tickDown = {}

\* The application state of a node that has joined its network and sits in
\* App::park: what App::start leaves behind on the Joining path.
Operational ==
    /\ Joined
    /\ pc = [t \in Threads |-> IF t = "main" THEN "park_poll" ELSE "unspawned"]
    /\ running = [s \in Services |-> TRUE]
    /\ count = [c \in Counted |->
                   IF c \in {"resolver", "versionCheck", "start_rest", "start_p2p",
                             "start_bridge", "start_monitor"} THEN 1 ELSE 0]

\* The application variables the workers below neither read nor write.
appQuiet ==
    <<procAlive, pc, bsLock, localVars, bsConfig, bsBurn, bsValidator, pool,
      p2pName, dbVars, subscribed, events, chanErrLogged, histVars, bsLog, count>>

\* A joined node whose monitor service has been started and whose worker and
\* tracer threads have not yet run.
WorkerInit ==
    /\ Operational /\ ThreadsIdle /\ ConfigIdle /\ VersionIdle
    /\ monSvc = MonitorServiceStart(MonitorServiceNew, "alive")

\* --------------------------------------- is_validator_function_call
\* What fork.load_account(SERVICE_ACCOUNT_ID) may give: no account, an account
\* without a contract reference, an account with one.
LoadedAccounts == {"none", "no_contract", "contract"}

\* What wm.lock().call(..) may give: an error, or result bytes that are the
\* serialization of true, of false, or of no boolean.
VmResults ==
    {[state |-> st, bytes |-> b] : st \in {"ok", "err"}, b \in {"true", "false", "junk"}}

Ok(value) == [kind |-> "ok", value |-> value, error |-> ""]
Err(error) == [kind |-> "err", value |-> FALSE, error |-> error]
Panicked == [kind |-> "panic", value |-> FALSE, error |-> ""]

\* Mutant of IsValidatorFunctionCall: the account and its contract reference
\* are unwrapped instead of being turned into errors.
IsValidatorFunctionCall_Unwrap(serialized, account, vm) ==
    IF ~serialized THEN Err("serialize")
    ELSE IF account # "contract" THEN Panicked
    ELSE IF vm.state = "err" THEN Err("wm")
    ELSE IF vm.bytes \notin {"true", "false"} THEN Err("deserialize")
    ELSE Ok(vm.bytes = "true")

\* The closure is_validator_function_call returns, on one call: every failure
\* leaves through `?` or as the result of rmp_deserialize.
IsValidatorFunctionCall(serialized, account, vm) ==
    IF ~serialized THEN Err("serialize")
    ELSE IF account = "none" THEN Err("The Service Account must exist!")
    ELSE IF account = "no_contract" THEN Err("The Service Account must have a contract!")
    ELSE IF vm.state = "err" THEN Err("wm")
    ELSE IF vm.bytes \notin {"true", "false"} THEN Err("deserialize")
    ELSE Ok(vm.bytes = "true")

\* The block engine calls the installed Live predicate.
EngineCallsValidator ==
    /\ procAlive /\ running["block"] /\ bsValidator = "live"
    /\ ~validatorDown /\ Len(verdicts) < MaxCalls
    /\ \E serialized \in BOOLEAN, account \in LoadedAccounts, vm \in VmResults :
          LET result == IsValidatorFunctionCall(serialized, account, vm)
          IN  /\ verdicts' = Append(verdicts,
                                    [serialized |-> serialized, account |-> account,
                                     vm |-> vm, result |-> result])
              /\ validatorDown' = (result.kind = "panic")
    /\ UNCHANGED <<appQuiet, running, chanOpen, envVars, monitorVars, tracerVars, configVars,
                   versionVars>>

ValidatorInit == WorkerInit

ValidatorSpec == ValidatorInit /\ [][EngineCallsValidator]_vars

\* ------------------------------------------------- MonitorWorker::run
\* What a receive on a response channel may give: the awaited response, some
\* other message, or, once the Block Request Channel has closed, an error.
Replies == IF chanOpen THEN {"response", "other"} ELSE {"response", "other", "closed"}

\* What send_update may meet: the push sent, the snapshot not serialized, the
\* request not built, the request not sent.
PushOutcomes == {"ok", "serialize", "build", "send"}

\* The seeds GetSeedRespone may carry.
Seeds == {0, 1}

\* What GetCoreStatsResponse may carry: the pool's size and the last block.
CoreStats ==
    {[hash |-> PoolHash(n), size |-> n, block |-> b] :
        n \in 0..MaxTxs, b \in {NoBlock} \cup {SomeBlock(h) : h \in 0..MaxBlocks}}

\* Mutant of MonEnds: the canary outlives the worker thread.
MonEnds_KeepCanary(how) == monPc' = how /\ UNCHANGED running

\* The worker thread ends and drops its canary: is_running turns false.
MonEnds(how) ==
    /\ monPc' = how
    /\ running' = [running EXCEPT !["monitor"] = FALSE]

\* Mutant of MonGoto: the canary is dropped while the thread goes on.
MonGoto_DropsCanary(label) ==
    /\ monPc' = label
    /\ running' = [running EXCEPT !["monitor"] = FALSE]

\* The worker thread goes on: the closure keeps its canary.
MonGoto(label) == monPc' = label /\ UNCHANGED running

\* Mutant of Update: a block already reported is updated field by field and
\* keeps its hash.
Update_KeepFirstHash(snapshot, info) ==
    [snapshot EXCEPT
        !.unconfirmed_pool = IF info.size > 0 THEN SomePool(info.hash, info.size) ELSE NoPool,
        !.last_block = IF ~info.block.some THEN @
                       ELSE IF @.some THEN [@ EXCEPT !.height = info.block.height]
                       ELSE LastBlock(info.block)]

\* Mutant of Update: an empty queue leaves the pool of the snapshot as it was.
Update_KeepPool(snapshot, info) ==
    [snapshot EXCEPT
        !.unconfirmed_pool = IF info.size > 0 THEN SomePool(info.hash, info.size) ELSE @,
        !.last_block = IF info.block.some THEN LastBlock(info.block) ELSE @]

\* The first lines of update: the pool is replaced; a block, when there is
\* one, replaces last_block together with its freshly computed hash.
Update(snapshot, info) ==
    [snapshot EXCEPT
        !.unconfirmed_pool = IF info.size > 0 THEN SomePool(info.hash, info.size) ELSE NoPool,
        !.last_block = IF info.block.some THEN LastBlock(info.block) ELSE @]

\* Mutant of AfterSendUpdate: a failed push skips the rest of the cycle.
AfterSendUpdate_SkipOnFailure(outcome) ==
    IF outcome = "ok" THEN "save_update" ELSE "sleep"

\* Where run goes when send_update has returned: every path of send_update
\* returns normally and save_update is the next statement.
AfterSendUpdate(outcome) == "save_update"

\* The cycle under way notes in monLog what it did.
LogLast(field, value) == monLog' = [monLog EXCEPT ![field] = value]

monRest ==
    <<appQuiet, chanOpen, envVars, validatorVars, tracerVars, monSvc, configVars, versionVars>>

\* The thread start has spawned begins run: GetNetworkIdRequest is sent.
MonNetSend ==
    /\ procAlive /\ monSvc.handler /\ monPc = "unstarted"
    /\ IF chanOpen THEN MonGoto("net_recv") ELSE MonEnds("returned")
    /\ UNCHANGED <<monCycle, monSnapshot, monReport, monLog, monRest>>

\* run receives the reply: the name is taken from a GetNetworkIdResponse, any
\* other outcome is logged, and the loop is entered.
MonNetRecv ==
    /\ procAlive /\ monPc = "net_recv"
    /\ \E reply \in Replies :
          monSnapshot' = IF reply = "response"
                         THEN [monSnapshot EXCEPT !.name = bsConfig.network]
                         ELSE monSnapshot
    /\ MonGoto("sleep")
    /\ UNCHANGED <<monCycle, monReport, monLog, monRest>>

\* One turn of the loop begins: sleep, then GetCoreStatsRequest is sent; a
\* closed channel ends run.  monCycle counts the requests sent.
MonStatsSend ==
    /\ procAlive /\ monPc = "sleep" /\ (monCycle < MaxCycles \/ ~chanOpen)
    /\ IF chanOpen
       THEN monCycle' = monCycle + 1 /\ MonGoto("stats_recv")
       ELSE UNCHANGED monCycle /\ MonEnds("returned")
    /\ UNCHANGED <<monSnapshot, monReport, monLog, monRest>>

\* The reply to GetCoreStatsRequest: statistics start update, another message
\* is logged, an error breaks the loop.
MonStatsRecv ==
    /\ procAlive /\ monPc = "stats_recv"
    /\ \E reply \in Replies :
          CASE reply = "response" ->
                 \E info \in CoreStats :
                    /\ monSnapshot' = Update(monSnapshot, info)
                    /\ monLog' = [n |-> monCycle, hash |-> info.hash, size |-> info.size,
                                block |-> info.block,
                                before |-> monSnapshot.last_block,
                                seed |-> "none", push |-> "none", saved |-> "none"]
                    /\ MonGoto("seed_send")
            [] reply = "other" ->
                 MonGoto("sleep") /\ UNCHANGED <<monSnapshot, monLog>>
            [] reply = "closed" ->
                 MonEnds("returned") /\ UNCHANGED <<monSnapshot, monLog>>
    /\ UNCHANGED <<monCycle, monReport, monRest>>

\* update sends GetSeedRequest; on a closed channel it returns to run.
MonSeedSend ==
    /\ procAlive /\ monPc = "seed_send"
    /\ MonGoto(IF chanOpen THEN "seed_recv" ELSE "send_update")
    /\ UNCHANGED <<monCycle, monSnapshot, monReport, monLog, monRest>>

\* Mutant of MonSeedRecv: a reply that is no seed response resets the seed.
MonSeedRecv_ResetSeed ==
    /\ procAlive /\ monPc = "seed_recv"
    /\ \E reply \in Replies :
          /\ IF reply = "response"
             THEN \E seed \in Seeds : monSnapshot' = [monSnapshot EXCEPT !.seed = seed]
             ELSE monSnapshot' = [monSnapshot EXCEPT !.seed = InitialSnapshot.seed]
          /\ LogLast("seed", reply)
    /\ MonGoto("send_update")
    /\ UNCHANGED <<monCycle, monReport, monRest>>

\* update receives the reply: the seed is taken from a GetSeedRespone, any
\* other outcome is logged.
MonSeedRecv ==
    /\ procAlive /\ monPc = "seed_recv"
    /\ \E reply \in Replies :
          /\ IF reply = "response"
             THEN \E seed \in Seeds : monSnapshot' = [monSnapshot EXCEPT !.seed = seed]
             ELSE UNCHANGED monSnapshot
          /\ LogLast("seed", reply)
    /\ MonGoto("send_update")
    /\ UNCHANGED <<monCycle, monReport, monRest>>

\* send_update: each failure is logged and the method returns.
MonSendUpdate ==
    /\ procAlive /\ monPc = "send_update"
    /\ \E outcome \in PushOutcomes :
          /\ LogLast("push", outcome)
          /\ MonGoto(AfterSendUpdate(outcome))
    /\ UNCHANGED <<monCycle, monSnapshot, monReport, monRest>>

\* save_update: File::create(file).unwrap() panics when the file cannot be
\* created; a failed write is logged and leaves the file short.
MonSaveUpdate ==
    /\ procAlive /\ monPc = "save_update"
    /\ \E created \in BOOLEAN, written \in BOOLEAN :
          IF created
          THEN /\ monReport' = Report(written, monSnapshot)
               /\ LogLast("saved", IF written THEN "complete" ELSE "partial")
               /\ MonGoto("sleep")
          ELSE /\ LogLast("saved", "panic")
               /\ MonEnds("panicked")
               /\ UNCHANGED monReport
    /\ UNCHANGED <<monCycle, monSnapshot, monRest>>

\* start is called on the service again, the worker thread alive or ended.
MonitorStartAgain ==
    /\ procAlive
    /\ monSvc' = MonitorServiceStart(monSvc, IF monPc \in {"returned", "panicked"}
                                              THEN "ended" ELSE "alive")
    /\ running' = IF monSvc.worker THEN [running EXCEPT !["monitor"] = TRUE] ELSE running
    /\ UNCHANGED <<appQuiet, chanOpen, envVars, validatorVars, tracerVars, monThread,
                   configVars, versionVars>>

MonitorWorker ==
    \/ MonNetSend \/ MonNetRecv \/ MonStatsSend \/ MonStatsRecv
    \/ MonSeedSend \/ MonSeedRecv \/ MonSendUpdate \/ MonSaveUpdate

\* ----------------------------------------------------------- tracer::run
trRest == <<appQuiet, running, chanOpen, validatorVars, monitorVars, configVars, versionVars>>

\* What the subscription may carry: a block of some size, or another message.
BlockMsg(size) == [block |-> TRUE, size |-> size]
OtherMsg == [block |-> FALSE, size |-> 0]

\* Tracer::update on a block of `size` transactions with the system clock
\* reading `now`: begin is reset while no transaction has been counted, and
\* `now - begin` panics when the clock reads less than begin.
TracerUpdate(txs, begin, size, now) ==
    LET start == IF txs = 0 THEN now ELSE begin
    IN  [panic |-> now < start, txs |-> txs + size, begin |-> start]

\* run subscribes to block events; on a closed channel it returns.
TrSubscribe ==
    /\ procAlive /\ trPc = "unstarted"
    /\ trPc' = IF chanOpen THEN "recv" ELSE "returned"
    /\ UNCHANGED <<trEvents, trTxs, trBegin, envVars, trRest>>

\* The engine puts a block notification on the tracer's subscription.
EngineNotifiesTracer ==
    /\ procAlive /\ running["block"] /\ chanOpen /\ trPc = "recv" /\ blocks < MaxNotified
    /\ blocks' = blocks + 1
    /\ \E size \in 0..MaxTxs : trEvents' = Append(trEvents, BlockMsg(size))
    /\ UNCHANGED <<trPc, trTxs, trBegin, noise, failures, trRest>>

\* Another message reaches the tracer's subscription.
TracerUnexpectedMessage ==
    /\ procAlive /\ running["block"] /\ chanOpen /\ trPc = "recv" /\ noise < MaxNoise
    /\ noise' = noise + 1
    /\ trEvents' = Append(trEvents, OtherMsg)
    /\ UNCHANGED <<trPc, trTxs, trBegin, blocks, failures, trRest>>

\* One turn of the loop: a block is handed to update, another message is
\* logged, an error (the subscription is empty and its sender gone) breaks
\* the loop.
TrRecv ==
    /\ procAlive /\ trPc = "recv"
    /\ IF trEvents # <<>>
       THEN /\ trEvents' = Tail(trEvents)
            /\ IF Head(trEvents).block
               THEN \E now \in 0..MaxClock :
                       LET after == TracerUpdate(trTxs, trBegin, Head(trEvents).size, now)
                       IN  /\ trPc' = IF after.panic THEN "panicked" ELSE "recv"
                           /\ trTxs' = IF after.panic THEN trTxs ELSE after.txs
                           /\ trBegin' = after.begin
               ELSE UNCHANGED <<trPc, trTxs, trBegin>>
       ELSE /\ ~chanOpen
            /\ trPc' = "returned"
            /\ UNCHANGED <<trEvents, trTxs, trBegin>>
    /\ UNCHANGED <<envVars, trRest>>

Tracer == TrSubscribe \/ TrRecv

WorkerNext == MonitorWorker \/ MonitorStartAgain \/ ChannelCloses

WorkerSpec == WorkerInit /\ [][WorkerNext]_vars

\* The monitor service from before its start: the Joining path has reached
\* line 555, the service is as MonitorService::new built it.
ServiceInit ==
    /\ Joined
    /\ pc = [t \in Threads |-> IF t = "main" THEN "start_monitor" ELSE "unspawned"]
    /\ running = [s \in Services |-> s # "monitor"]
    /\ count = [c \in Counted |->
                   IF c \in {"resolver", "versionCheck", "start_rest", "start_p2p",
                             "start_bridge"} THEN 1 ELSE 0]
    /\ WorkersIdle

ServiceNext == StartMonitor \/ MonitorWorker \/ MonitorStartAgain \/ ChannelCloses

ServiceSpec == ServiceInit /\ [][ServiceNext]_vars

\* The monitor worker under the supervision of App::park: the worker, the
\* supervisor's ticks and shutdown, and the channel's closing.  The worker
\* thread and the main thread are scheduled fairly: a sleep ends, a pending
\* reply or channel error is delivered.
SupervisedNext == MonitorWorker \/ MainPark \/ ChannelCloses

SupervisedSpec ==
    /\ WorkerInit
    /\ [][SupervisedNext]_vars
    /\ WF_vars(MonitorWorker)
    /\ WF_vars(MainPark)

\* The monitor worker across a shutdown it has not caused: the REST service
\* may stop by itself, park shuts down, main returns.
ShutdownNext == MonitorWorker \/ MainPark \/ ServiceFails("rest") \/ ChannelCloses

ShutdownSpec == WorkerInit /\ [][ShutdownNext]_vars

TracerNext == Tracer \/ EngineNotifiesTracer \/ TracerUnexpectedMessage \/ ChannelCloses

TracerSpec == WorkerInit /\ [][TracerNext]_vars

\* ------------------------------------------------ tests::from_file
cfgRest ==
    <<appQuiet, running, chanOpen, envVars, validatorVars, monitorVars, tracerVars, versionVars>>

\* writeln!(&mut file, "{}", config): the file holds what Display writes.
WriteConfigFile ==
    /\ cfgFile.state # "toml" /\ ~cfgLoaded.some
    /\ cfgFile' = TomlFile(Display(cfgValue))
    /\ UNCHANGED <<cfgValue, cfgLoaded, cfgRest>>

\* Config::from_file(filename).
LoadConfigFile ==
    /\ ~cfgLoaded.some
    /\ cfgLoaded' = FromFile(cfgFile)
    /\ UNCHANGED <<cfgValue, cfgFile, cfgRest>>

\* Any of the Config values and a file that is missing or no TOML, on a node
\* with a fresh database and no genesis file, whose services have not started.
ConfigInit ==
    /\ AppNew /\ startArgs /\ ~dbAccount /\ bootstrapFile = NoFile
    /\ ThreadsIdle /\ monSvc = MonitorServiceNew /\ VersionIdle
    /\ cfgValue \in Configs
    /\ cfgFile \in {NoConfigFile, BadConfigFile}
    /\ cfgLoaded = NoConfig

ConfigSpec == ConfigInit /\ [][WriteConfigFile \/ LoadConfigFile]_vars

\* ================================================================== claims
\* Positions of the main thread.
HelperLabels ==
    {"sbc_stop", "sbc_set_config", "sbc_set_burn", "sbc_start",
     "siv_stop", "siv_set", "siv_start", "ptx_stop", "ptx_put", "ptx_start"}

JoinReturns == {"join_validator", "join_p2p_name"}

BmLabels == {"bm_subscribe", "bm_recv", "bm_check", "bm_unsub"}

InlineTail == {"inl_load_config", "inl_store", "inl_cfg", "inl_validator", "inl_p2p_name"}

BootTail ==
    {"bt_lock", "bt_load_config", "bt_stop", "bt_set_config", "bt_set_burn", "bt_store",
     "bt_set_validator", "bt_start", "bt_p2p_name", "bt_p2p_start", "done"}

\* The main thread is in the Joining branch of App::start (lines 446-455).
InJoining ==
    \/ pc["main"] \in {"join_cfg", "join_validator", "join_p2p_name"}
    \/ pc["main"] \in HelperLabels /\ ret \in JoinReturns

\* The main thread is in the genesis branch of App::start (lines 457-543).
InGenesis ==
    \/ pc["main"] \in {"gen_load", "gen_store_account", "gen_cfg", "gen_branch"}
    \/ pc["main"] \in BmLabels \cup InlineTail
    \/ pc["main"] \in HelperLabels /\ ret \notin JoinReturns

\* C1: the two startup branches exclude each other.  Once the boot-time
\* resolver query has returned Established, the Genesis Loader and
\* store_service_account are never invoked, the main thread is never in the
\* genesis branch and no bootstrap thread exists; once it has returned
\* Unestablished, the main thread is never in the Joining branch; and neither
\* branch is entered before the query has returned.
C1_BranchesExclusive ==
    /\ resolved = "Established" =>
          /\ count["genesisLoad"] = 0
          /\ count["storeAccount"] = 0
          /\ count["spawn"] = 0
          /\ ~InGenesis
          /\ pc["boot"] = "unspawned"
    /\ resolved = "Unestablished" => ~InJoining
    /\ resolved = "none" =>
          /\ ~InJoining /\ ~InGenesis
          /\ count["genesisLoad"] = 0 /\ count["storeAccount"] = 0

\* C1 witness: a boot that resolved Established has gone through the Joining
\* branch to the end of App::start.
C1_Witness ==
    /\ resolved = "Established"
    /\ pc["main"] = "park_poll"
    /\ bsValidator = "live"
    /\ count["genesisLoad"] = 0

\* Calls that change the engine's configuration, predicate or pool.
Mutations == {"set_block_config", "set_burn_fuel_method", "set_validator", "put_txs"}

\* The call at index i of the engine's log was made on a stopped engine: a
\* stop() precedes it with no start() between the two.
StoppedBefore(i) ==
    \E j \in 1..(i - 1) :
        /\ bsLog[j].call = "stop"
        /\ \A k \in (j + 1)..(i - 1) : bsLog[k].call # "start"

StartedAfter(i) == \E k \in (i + 1)..Len(bsLog) : bsLog[k].call = "start"

\* Thread t is between the stop() and the start() of a transition.
InTransition(t) ==
    IF t = "main"
    THEN pc["main"] \in {"sbc_set_config", "sbc_set_burn", "sbc_start", "siv_set",
                         "siv_start", "ptx_put", "ptx_start"}
    ELSE pc["boot"] \in {"bt_set_config", "bt_set_burn", "bt_store", "bt_set_validator",
                         "bt_start"}

\* C2: every mutation of the block engine happens while the engine is
\* stopped.  Each set_block_config, set_burn_fuel_method, set_validator and
\* put_txs of the log is preceded by a stop() with no start() in between and
\* is followed by a start() (unless its thread is still inside the transition
\* or the process has ended), and the engine is not running while a thread is
\* between the stop() and the start() of a transition.
C2_MutationOnlyWhileStopped ==
    /\ \A i \in 1..Len(bsLog) :
          bsLog[i].call \in Mutations =>
              /\ StoppedBefore(i)
              /\ StartedAfter(i) \/ InTransition(bsLog[i].by) \/ ~procAlive
    /\ \A t \in Threads : InTransition(t) => ~running["block"]

\* C2 witness: the bootstrap thread has completed its stop, configure, start
\* after the main thread completed its own.
C2_Witness ==
    /\ pc["boot"] = "done"
    /\ bsValidator = "live"
    /\ running["block"]
    /\ \E i \in 1..Len(bsLog) : bsLog[i].by = "boot" /\ bsLog[i].call = "set_validator"
    /\ \E i \in 1..Len(bsLog) : bsLog[i].by = "main" /\ bsLog[i].call = "set_block_config"

\* C3 (as claimed): a thread between the stop() and the start() of a
\* transition holds the block engine's lock all along.
C3_LockHeldAcrossTransition == \A t \in Threads : InTransition(t) => bsLock = t

\* ----------------------------------------------------------- park (C4, C5)
\* Park's tick ends in this step: the last is_running() of the tick is read.
TickEnds == pc["main"] = "park_poll" /\ parkIdx > 1 /\ parkIdx' = 1

\* Service s was not running when the tick began and still is not.
DownAcrossTick(s) == s \in tickDown /\ ~running[s]

FullStopOrder == <<"block", "rest", "p2p", "bridge", "monitor">>

IsPrefix(a, b) == Len(a) <= Len(b) /\ \A i \in 1..Len(a) : a[i] = b[i]

\* Park's stop() calls: a prefix of block engine, REST, peer, bridge,
\* monitor, made only in the shutdown, complete when park returns.
StopSequenceOk ==
    /\ IsPrefix(parkStops, FullStopOrder)
    /\ pc["main"] = "park_stop" => Len(parkStops) = parkIdx - 1 /\ stopFlag
    /\ pc["main"] \in {"park_returned", "exited"} => parkStops = FullStopOrder
    /\ pc["main"] \notin {"park_stop", "park_returned", "exited"} => parkStops = <<>>

\* Park waits for its next tick: none of the services S was down across the
\* tick before.
NoneDownAfterQuietTick(S) ==
    pc["main"] = "park_poll" /\ parkIdx = 1 => \A s \in S : ~DownAcrossTick(s)

FaultReplies == {"OtherException", "OtherMessage", "ChannelError"}

\* A step of the startup: a counted call, a call on the block engine by a
\* thread of App::start, or a write to storage.
StartupStep ==
    \/ count' # count
    \/ Len(bsLog') > Len(bsLog) /\ bsLog'[Len(bsLog')].by # "park"
    \/ dbAccount' # dbAccount
    \/ dbSettings' # dbSettings

\* C6 (as claimed): the resolver maps an account response to Established, a
\* ResourceNotFound exception to Unestablished and aborts on anything else;
\* after such an abort no further startup step is executed.
C6_ResolverAbortStopsStartup ==
    /\ [](/\ pc["main"] = "join_cfg" => lastReply["main"] = "AccountResponse"
          /\ pc["main"] = "gen_load" => lastReply["main"] = "NotFound"
          /\ \A t \in Threads : lastReply[t] \in FaultReplies => pc[t] = "panicked")
    /\ [][(\E t \in Threads : lastReply[t] \in FaultReplies) => ~StartupStep]_vars

\* ------------------------------------------------- genesis scenarios (C7, C8)
ProvisionalConfig(n) == [network |-> LitName("bootstrap"), threshold |-> n, timeout |-> 2]

StartLabels == {"start_rest", "start_p2p", "start_bridge", "start_monitor"}

NoServiceStarted ==
    /\ count["start_rest"] = 0 /\ count["start_p2p"] = 0
    /\ count["start_bridge"] = 0 /\ count["start_monitor"] = 0
    /\ \A s \in {"rest", "p2p", "bridge", "monitor"} : ~running[s]

\* The boot resolved Unestablished and loaded a bundle with no transaction.
EmptyGenesis == resolved = "Unestablished" /\ bootstrap.ok /\ Len(bootstrap.txs) = 0

\* The boot resolved Unestablished and loaded a bundle with transactions.
SeededGenesis == resolved = "Unestablished" /\ bootstrap.ok /\ Len(bootstrap.txs) > 0

\* C7: with no system account and an empty transaction list the engine is
\* configured with name "bootstrap", threshold 42 and timeout 2 (and keeps
\* that configuration and the stub predicate until the bootstrap thread
\* reconfigures it); the bootstrap-monitor procedure runs on a thread spawned
\* once, never on the main thread; and App::start does not wait for it: every
\* remaining step of App::start is enabled whatever the thread is doing, and
\* the main thread does not start the peer service.
C7_EmptyGenesisSpawnsThread ==
    /\ count["spawn"] <= 1
    /\ pc["boot"] # "unspawned" \/ count["spawn"] > 0 => EmptyGenesis /\ count["spawn"] = 1
    /\ EmptyGenesis =>
          /\ pc["main"] \notin BmLabels \cup InlineTail \cup {"ptx_stop", "ptx_put", "ptx_start"}
          /\ ~p2pStart
          /\ pc["main"] = "gen_branch" =>
                bsConfig = ProvisionalConfig(42) /\ pc["boot"] = "unspawned"
          /\ pc["boot"] \in BmLabels \cup {"bt_lock", "bt_load_config", "bt_stop", "panicked"} =>
                bsConfig = ProvisionalConfig(42) /\ bsValidator = "stub"
          /\ pc["main"] \in StartLabels \cup {"park_poll", "park_stop"} => count["spawn"] = 1
          /\ procAlive /\ pc["main"] \in StartLabels => ENABLED MainStart

\* C7 witness: App::start has returned, REST, bridge and monitor are started,
\* and the bootstrap thread is still waiting for the genesis block.
C7_Witness ==
    /\ EmptyGenesis
    /\ pc["main"] = "park_poll"
    /\ pc["boot"] = "bm_recv"
    /\ running["rest"] /\ running["bridge"] /\ running["monitor"] /\ ~running["p2p"]
    /\ bsConfig = ProvisionalConfig(42)

\* The main thread has not yet returned from the bootstrap-monitor procedure.
BeforeBmReturn ==
    \/ pc["main"] \in {"gen_store_account", "gen_cfg", "gen_branch"} \cup BmLabels
    \/ pc["main"] \in HelperLabels /\ ret \in {"gen_branch", "bm_subscribe"}

PutTxsCalls == {i \in 1..Len(bsLog) : bsLog[i].call = "put_txs"}

\* C8: with no system account and n > 0 transactions the threshold is n, the
\* pool is seeded once, with exactly the bundle's transactions in their order,
\* while the engine is stopped, no thread is spawned, and until the main
\* thread has returned from the bootstrap-monitor procedure none of REST,
\* peer, bridge and monitor is started and the predicate is the stub.
C8_SeededGenesisBlocksCaller ==
    SeededGenesis =>
        /\ count["spawn"] = 0 /\ pc["boot"] = "unspawned"
        /\ pc["main"] \in {"gen_branch", "ptx_stop", "ptx_put", "ptx_start", "inl_load_config",
                           "inl_store", "inl_cfg"} \cup BmLabels =>
              bsConfig = ProvisionalConfig(Len(bootstrap.txs))
        /\ pc["main"] \in {"gen_branch", "ptx_stop", "ptx_put"} =>
              pool = <<>> /\ PutTxsCalls = {}
        /\ pc["main"] = "ptx_put" => ~running["block"]
        /\ pc["main"] = "ptx_start" => pool = bootstrap.txs /\ ~running["block"]
        /\ Cardinality(PutTxsCalls) <= 1
        /\ pc["main"] \in BmLabels \cup InlineTail => Cardinality(PutTxsCalls) = 1
        /\ BeforeBmReturn => NoServiceStarted /\ bsValidator = "stub"
        /\ ~NoServiceStarted \/ bsValidator = "live" =>
              count["unsubscribe"] = 1 /\ ~subscribed

\* C8 witness: the main thread waits in the bootstrap-monitor procedure, the
\* engine runs with the seeded pool, no service is started.
C8_Witness ==
    /\ SeededGenesis
    /\ pc["main"] = "bm_recv"
    /\ Len(bootstrap.txs) = MaxTxs
    /\ pool = bootstrap.txs
    /\ bsConfig.threshold = MaxTxs
    /\ running["block"]
    /\ NoServiceStarted

\* ------------------------------------------------------- version check (C9)
\* The stored minimum is greater than the running version, or the
\* comparison fails.
TooOldFor(min_node_version) == VersionCompare(VERSION, min_node_version) \in {"Lt", "Err"}

JoiningWith(v) ==
    resolved = "Established" /\ dbSettings.state = "ok" /\ dbSettings.value.min_node_version = v

\* C9: with the system account present, a stored min_node_version greater
\* than the running version (or one that cannot be compared) aborts startup
\* before REST, peer, bridge or monitor is started and before the engine is
\* reconfigured; a stored minimum equal to or lower than the running version
\* does not abort it (with a network name stored, the only abort left on that
\* path is the one of the monitor's start arguments, after REST, peer and
\* bridge have been started).
C9_VersionGate ==
    /\ TooOldFor(Version(<<0, 3>>)) /\ TooOldFor(BadVersion)
    /\ ~TooOldFor(Version(<<0, 2, 6>>)) /\ ~TooOldFor(Version(<<0, 2, 7, 0>>))
    /\ \A v \in MinVersions :
          JoiningWith(v) =>
              IF TooOldFor(v)
              THEN /\ NoServiceStarted
                   /\ \A i \in 1..Len(bsLog) : bsLog[i].call \notin Mutations \cup {"stop"}
                   /\ bsConfig.network = StaticNetwork
                   /\ bsValidator = "stub"
                   /\ pc["main"] \in {"join_cfg", "panicked"}
              ELSE dbSettings.value.network_name.some /\ pc["main"] = "panicked" =>
                       ~startArgs /\ count["start_bridge"] = 1

\* C9 witness: a Joining boot has aborted on a stored minimum of 0.3.
C9_Witness ==
    /\ JoiningWith(Version(<<0, 3>>))
    /\ pc["main"] = "panicked"
    /\ ~procAlive
    /\ count["versionCheck"] = 1

\* ---------------------------------------------------- bootstrap_monitor (C10)
\* Thread t has returned from bootstrap_monitor.
BmReturned(t) == IF t = "main" THEN pc["main"] \in InlineTail ELSE pc["boot"] \in BootTail

\* C10: bootstrap_monitor returns only after a block notification whose
\* resolver check got the account; exactly one Unsubscribe is sent, on that
\* exit and not before.
C10_BootstrapMonitorExit ==
    /\ count["unsubscribe"] <= 1
    /\ count["unsubscribe"] = 1 => count["blockNotified"] >= 1 /\ blocks >= 1
    /\ \A t \in Threads :
          /\ BmReturned(t) =>
                /\ count["blockNotified"] >= 1
                /\ lastReply[t] = "AccountResponse"
                /\ count["unsubscribe"] = 1
                /\ ~subscribed
          /\ pc[t] \in {"bm_subscribe", "bm_recv", "bm_check"} => count["unsubscribe"] = 0
          /\ pc[t] = "bm_unsub" =>
                /\ count["blockNotified"] >= 1
                /\ lastReply[t] = "AccountResponse"
                /\ count["unsubscribe"] = 0

\* C10 witness: the main thread is back from bootstrap_monitor, its
\* Unsubscribe sent.
C10_Witness ==
    /\ pc["main"] = "inl_load_config"
    /\ count["unsubscribe"] = 1
    /\ count["blockNotified"] = 1
    /\ lastReply["main"] = "AccountResponse"

\* ------------------------------------ bootstrap_monitor, other replies (C11)
\* C11 (as claimed): in bootstrap_monitor a message that is no block
\* notification leaves the procedure waiting, and a channel-closed error is
\* fatal: once the error has been met the procedure is no longer waiting on
\* the closed channel.
C11_OtherIgnoredClosedFatal ==
    /\ [](chanErrLogged => \A t \in Threads : pc[t] # "bm_recv")
    /\ [][\A t \in Threads :
             pc[t] = "bm_recv" /\ events # <<>> /\ Head(events) = "other"
                 /\ events' = Tail(events)
             => pc'[t] = "bm_recv" /\ procAlive']_vars

\* --------------------------------------------- fatal after genesis (C12)
\* Thread t aborted in bootstrap_monitor on a block notification whose
\* resolver check did not find the system account.
BlockWithoutAccount(t) ==
    /\ pc[t] = "panicked"
    /\ count["blockNotified"] >= 1
    /\ count["unsubscribe"] = 0
    /\ lastReply[t] = "NotFound"

\* Thread t aborted in load_config_from_service after bootstrap_monitor had
\* returned.
SettingsLoadFailed(t) ==
    /\ pc[t] = "panicked"
    /\ count["unsubscribe"] = 1
    /\ svcCfg.state # "ok"
    /\ count["storeConfig"] = 0

\* C12 (as claimed): a fatal condition met after genesis, on the main thread
\* or on the bootstrap thread, ends the process: no service keeps running
\* under a live process.
C12_FatalAfterGenesisEndsProcess ==
    \A t \in Threads : BlockWithoutAccount(t) \/ SettingsLoadFailed(t) => ~procAlive

\* ------------------------------------- traffic while genesis is awaited (C13)
\* Thread t is in bootstrap_monitor and the genesis block has not reached it.
AwaitingGenesisBlock(t) == pc[t] \in {"bm_subscribe", "bm_recv"}

\* C13 (as claimed): while bootstrap_monitor still waits for the genesis
\* block, on the main thread or on the bootstrap thread, none of REST, bridge
\* and peer networking has been started.
C13_NoTrafficWhileAwaitingGenesis ==
    \A t \in Threads :
        AwaitingGenesisBlock(t) =>
            /\ count["start_rest"] = 0 /\ count["start_bridge"] = 0 /\ count["start_p2p"] = 0
            /\ ~running["rest"] /\ ~running["bridge"] /\ ~running["p2p"]

\* C13 (amended): while bootstrap_monitor still waits for the genesis block,
\* peer networking has not been started in either variant; when it waits on
\* the main thread (inline variant) REST, bridge and monitor have not been
\* started either.  When it waits on the bootstrap thread, REST and bridge
\* may be started (see the witness).
C13_NoPeerWhileAwaitingGenesis ==
    /\ \A t \in Threads :
          AwaitingGenesisBlock(t) => count["start_p2p"] = 0 /\ ~running["p2p"]
    /\ AwaitingGenesisBlock("main") => NoServiceStarted

\* C13 witness: the bootstrap thread waits for the genesis block while REST
\* and bridge, started by the main thread, are running and the peer service
\* is not.
C13_Witness ==
    /\ AwaitingGenesisBlock("boot")
    /\ blocks = 0
    /\ count["start_rest"] = 1 /\ count["start_bridge"] = 1
    /\ running["rest"] /\ running["bridge"]
    /\ count["start_p2p"] = 0 /\ ~running["p2p"]

\* ------------------------------------------ the canonical network name (C14)
\* The content-derived identifier of the genesis file at bootstrap_path.
GoodNetworkName == CalculateNetworkName(bootstrapFile.bytes)

\* The genesis branch has run to its end: the inline tail on the main thread,
\* or the closure of the bootstrap thread.
GenesisComplete ==
    \/ SeededGenesis /\ pc["main"] \in StartLabels \cup {"park_poll", "park_stop",
                                                         "park_returned", "exited"}
    \/ EmptyGenesis /\ pc["boot"] = "done"

JoiningComplete ==
    resolved = "Established"
        /\ pc["main"] \in StartLabels \cup {"park_poll", "park_stop", "park_returned", "exited"}

StoreConfigCalls == {i \in 1..Len(bsLog) : bsLog[i].call = "store_config_into_db"}

\* C16 (as claimed): in each startup transition that reaches Operational,
\* Joining included, store_config_into_db is invoked exactly once.
C16_StoredOncePerTransition ==
    /\ count["storeConfig"] <= 1
    /\ JoiningComplete \/ GenesisComplete => count["storeConfig"] = 1

\* C16 (amended): store_config_into_db is invoked exactly once in each
\* genesis transition that completes (inline or on the bootstrap thread),
\* never twice in a boot, and not at all in the Joining transition, which
\* only reads the stored settings.
C16_StoredOncePerGenesis ==
    /\ count["storeConfig"] <= 1
    /\ Cardinality(StoreConfigCalls) = count["storeConfig"]
    /\ GenesisComplete => count["storeConfig"] = 1
    /\ resolved = "Established" => count["storeConfig"] = 0

\* C16 witness: a Joining boot is Operational and nothing was written back.
C16_Witness ==
    /\ JoiningComplete
    /\ pc["main"] = "park_poll"
    /\ running["p2p"]
    /\ count["storeConfig"] = 0

\* --------------------------------------------- absent network name (C17)
\* A Joining boot whose stored settings pass the version check and carry no
\* network name.
JoiningUnnamed ==
    /\ resolved = "Established"
    /\ dbSettings.state = "ok"
    /\ ~dbSettings.value.network_name.some
    /\ ~TooOldFor(dbSettings.value.min_node_version)

\* C17: the block engine is never given an absent network name: every thread
\* about to call set_block_config holds a name; settings found without one
\* abort the boot in set_config_from_db, before the engine is touched, the
\* process ends and no service is started.
C17_NetworkNameAlwaysSet ==
    /\ bsConfig.network.some
    /\ pc["main"] = "sbc_set_config" => cfgArg.network_name.some
    /\ pc["boot"] = "bt_set_config" =>
          FinalSettings(svcCfg.value, bootstrap.name).network_name.some
    /\ JoiningUnnamed =>
          /\ pc["main"] \in {"join_cfg", "panicked"}
          /\ pc["main"] = "panicked" => ~procAlive
          /\ NoServiceStarted
          /\ \A i \in 1..Len(bsLog) : bsLog[i].call \notin Mutations \cup {"stop"}

\* C17 witness: a boot has aborted on stored settings without a network name.
C17_Witness ==
    /\ JoiningUnnamed
    /\ pc["main"] = "panicked"
    /\ ~procAlive
    /\ count["versionCheck"] = 1
    /\ bsConfig.network = StaticNetwork

\* ------------------------------------------------ the Live predicate (C18)
\* The inputs of a call that make the predicate fail.
FailingCall(c) ==
    \/ c.account \in {"none", "no_contract"}
    \/ c.vm.state = "err"
    \/ c.vm.bytes \notin {"true", "false"}

\* C18: the Live predicate never panics: with the system account missing,
\* its contract reference missing, the virtual-machine call failed or the
\* result no boolean, the call returns an error value; and the predicate can
\* be called again afterwards.
C18_LivePredicateNeverPanics ==
    /\ ~validatorDown
    /\ \A i \in 1..Len(verdicts) :
          /\ verdicts[i].result.kind \in {"ok", "err"}
          /\ FailingCall(verdicts[i]) => verdicts[i].result.kind = "err"
          /\ verdicts[i].result.kind = "ok" =>
                verdicts[i].result.value = (verdicts[i].vm.bytes = "true")
    /\ Len(verdicts) < MaxCalls => ENABLED EngineCallsValidator

\* C18 witness: a call with the account missing returned an error, and the
\* next call returned a verdict.
C18_Witness ==
    /\ Len(verdicts) = 2
    /\ verdicts[1].account = "none" /\ verdicts[1].result.kind = "err"
    /\ verdicts[2].result = Ok(TRUE)

\* --------------------------------------- the worker loops' exits (C19, C20)
\* The monitor worker's thread has ended.
MonTerminated == monPc \in {"returned", "panicked"}

\* The monitor worker is inside the cycle that monLog records.
CycleUnderWay == monPc \in {"seed_send", "seed_recv", "send_update", "save_update"}

\* The monitor worker returns from run only on a closed channel.
MonReturnsOnlyOnClosed == monPc = "returned" => ~chanOpen

\* C19: the monitor worker's loop terminates only when a send or receive on
\* the Block Request Channel reports the channel closed: while the channel is
\* open the worker has not terminated, whatever the replies, the outcome of
\* the push and the outcome of the report-file write.
C19_MonitorEndsOnlyOnClosedChannel == MonTerminated => ~chanOpen

\* The tracer's half of C19: the tracer's loop terminates only on a closed
\* channel (checked under TracerSpec).
TracerEndsOnlyOnClosedChannel == trPc \in {"returned", "panicked"} => ~chanOpen

\* The cycle that monLog records is over.
CycleOver == monLog.n > 0 /\ ~CycleUnderWay

ReportFileFailed == monLog.saved \in {"partial", "panic"}

\* C21: a failure of the report file (it cannot be created, or a write to it
\* fails) is recoverable: while the channel is open the worker thread has not
\* ended after such a cycle and the monitor service still reports running.
C21_ReportFileFailureRecoverable ==
    chanOpen /\ ReportFileFailed => ~MonTerminated /\ running["monitor"]

\* The conforming half of C21: a failed write alone leaves the worker alive.
FailedWriteRecoverable ==
    chanOpen /\ monLog.saved # "panic" => ~MonTerminated /\ running["monitor"]

\* ----------------------------------- the collector address (C22)
\* C22: the absence of a collector address never prevents the monitor from
\* starting: a boot whose monitor arguments are not both present, having
\* started the bridge, goes on to start the monitor rather than ending.
C22_MissingAddressNeverPreventsMonitor ==
    ~startArgs /\ count["start_bridge"] = 1 =>
        pc["main"] # "panicked" /\ procAlive

\* ----------------------------------- the snapshot's last block (C23)
\* C23: once a cycle has updated the snapshot, last_block is, block and hash,
\* the block that cycle's statistics carried, or what it was before when they
\* carried none: nothing of an earlier block is left beside a new one, and the
\* stored hash is the hash of the stored block, in the snapshot and in the
\* report file.
C23_LastBlockReplacedWholesale ==
    /\ monLog.n > 0 =>
          monSnapshot.last_block =
             IF monLog.block.some THEN LastBlock(monLog.block) ELSE monLog.before
    /\ monSnapshot.last_block.some =>
          monSnapshot.last_block.hash = BlockHash(SomeBlock(monSnapshot.last_block.height))
    /\ monReport.exists /\ monReport.snapshot.last_block.some =>
          monReport.snapshot.last_block.hash =
             BlockHash(SomeBlock(monReport.snapshot.last_block.height))

\* C23 witness: two cycles have reported different blocks one after the other
\* and the snapshot holds the second block with the second block's hash.
C23_Witness ==
    /\ monLog.n = 2 /\ monLog.before.some /\ monLog.block.some
    /\ monLog.before.height # monLog.block.height
    /\ monSnapshot.last_block = LastBlock(monLog.block)
    /\ monSnapshot.last_block.hash # monLog.before.hash
    /\ monReport = Report(TRUE, monSnapshot)

RoundTripDone == cfgFile = TomlFile(Display(cfgValue)) /\ cfgLoaded # NoConfig

\* C25: a Config written to a file as Display does and loaded with
\* Config::from_file is the Config that was written.
C25_ConfigRoundTrip ==
    RoundTripDone => cfgLoaded = SomeConfig(cfgValue)

\* The conforming part of C25: the test's own Config comes back as written,
\* and so does every Config that differs from it in log_level or
\* block_threshold only.
TestConfigRoundTrips ==
    (/\ RoundTripDone
     /\ cfgValue = [TestConfig EXCEPT !.log_level = cfgValue.log_level,
                                      !.block_threshold = cfgValue.block_threshold])
        => cfgLoaded = SomeConfig(cfgValue)

\* ----------------------------------- where shutdown comes from (C26)
\* The services other than the block engine.
OuterServices == {"rest", "p2p", "bridge", "monitor"}

\* park is at the read of a tick that turns stop from false to true.
PollSetsStop == pc["main"] = "park_poll" /\ stopFlag' /\ ~(parkIdx > 1 /\ stopFlag)

\* C26: shutdown comes from park's supervision only: stop is set in a tick
\* only by a polled service read as not running, park goes to its stop calls
\* and returns only with stop set, having stopped every service in order, and
\* no step outside park's stop calls takes a running REST, peer, bridge or
\* monitor service down, unless the service fails by itself.
C26_ShutdownOnlyFromPark ==
    /\ [][PollSetsStop => ~running[PolledServices[parkIdx]]]_vars
    /\ [][pc["main"] = "park_poll" /\ pc'["main"] # "park_poll" =>
             pc'["main"] = "park_stop" /\ stopFlag']_vars
    /\ [](parkStops # <<>> => stopFlag /\ pc["main"] \in {"park_stop", "park_returned", "exited"})
    /\ [](pc["main"] \in {"park_returned", "exited"} => parkStops = FullStopOrder)
    /\ [][\A s \in OuterServices :
             running[s] /\ ~running'[s] =>
                \/ pc["main"] = "park_stop" /\ parkStops' = Append(parkStops, s)
                \/ failures' = failures + 1]_vars

\* C26 witness: park has returned after a tick that read a service as not
\* running, every service stopped.
C26_Witness ==
    /\ pc["main"] = "park_returned"
    /\ parkStops = FullStopOrder
    /\ failures = 1
    /\ \A s \in Services \ {"monitor"} : ~running[s]


\* ------------------------------------------------------------------ C27
\* The block engine has been started and nothing else has been configured or
\* started yet: the state in which App::start issues its query (line 445).
OnlyEngineStarted ==
    /\ bsLog = <<[by |-> "main", call |-> "start"]>>
    /\ NoServiceStarted
    /\ bsValidator = "stub" /\ bsBurn = ""
    /\ p2pName = StaticNetwork /\ ~p2pStart
    /\ svcCfg = Absent /\ bootstrap = NotLoaded

\* A step that issues a resolver query.
ResolverQueried == count'["resolver"] = count["resolver"] + 1

\* C27 (as claimed): the resolver query is issued exactly once per boot, after
\* the block engine has been started and before any other service is
\* configured or started: no boot issues a second query, and the one query
\* finds only the engine started.
C27_ResolverQueriedOncePerBoot ==
    /\ [](count["resolver"] <= 1)
    /\ [][ResolverQueried => OnlyEngineStarted]_vars

\* C27 (amended): App::start issues the first query of a boot itself, after
\* the block engine has been started and before any other service is
\* configured or started; it is the only query of a boot that resolved
\* Established.  In a boot that resolved Unestablished the bootstrap monitor
\* queries again, once per block notification it has received, on the thread
\* that runs it, and by then the genesis bundle has been loaded.
C27_FirstResolverQueryPrecedesServices ==
    /\ [](resolved = "Established" => count["resolver"] = 1)
    /\ [](count["resolver"] <= 1 + count["blockNotified"])
    /\ [](resolved = "none" => count["resolver"] <= 1)
    /\ [](resolved # "none" => count["resolver"] >= 1)
    /\ [][ResolverQueried =>
            IF count["resolver"] = 0
            THEN pc["main"] = "resolve" /\ OnlyEngineStarted
            ELSE /\ resolved = "Unestablished" /\ bootstrap.ok
                 /\ \E t \in Threads : pc[t] = "bm_check" /\ pc'[t] # "bm_check"
                 /\ count["resolver"] <= count["blockNotified"]]_vars

\* C27 witness: the bootstrap monitor on the spawned thread has queried the
\* resolver a second time while the REST service is already running.
C27_Witness ==
    /\ count["resolver"] = 2
    /\ running["rest"]
    /\ pc["boot"] = "bm_unsub"


\* ------------------------------------------------------------------ C28
\* The set_validator calls the block engine has received.
SetValidatorCalls == {i \in DOMAIN bsLog : bsLog[i].call = "set_validator"}

\* A resolver check of this boot has returned Established.
EstablishedSeen == \E t \in Threads : IsServicePresent(lastReply[t]) = "Established"

\* C28: the stub predicate is the validator predicate from construction
\* until it is replaced; the Live predicate is installed only after a
\* resolver check of this boot returned Established, at most once per boot,
\* and the stub is never installed again.
C28_LivePredicateInstalledOnce ==
    /\ [](bsValidator = "stub" <=> SetValidatorCalls = {})
    /\ [](Cardinality(SetValidatorCalls) <= 1)
    /\ [](bsValidator = "live" => EstablishedSeen)
    /\ [][bsValidator' # bsValidator =>
            /\ bsValidator = "stub" /\ bsValidator' = "live"
            /\ EstablishedSeen
            /\ \E t \in Threads : /\ IsServicePresent(lastReply[t]) = "Established"
                                  /\ bsLog' = Append(bsLog, [by |-> t, call |-> "set_validator"])]_vars

\* C28 witness: the bootstrap thread has installed the Live predicate in a
\* boot whose first check returned Unestablished.
C28_Witness ==
    /\ bsValidator = "live"
    /\ resolved = "Unestablished"
    /\ lastReply["boot"] = "AccountResponse"
    /\ pc["boot"] = "done"


\* ------------------------------------------------------------------ C29
\* The network name this boot resolved: the stored one when joining, the
\* content-derived one of the genesis bundle otherwise.
ResolvedNetworkName ==
    IF resolved = "Established" THEN dbSettings.value.network_name ELSE bootstrap.name

\* set_network_name has been called on the peer service with the resolved
\* name.
PeerCarriesResolvedName ==
    /\ resolved # "none"
    /\ p2pName.some
    /\ p2pName = ResolvedNetworkName
    /\ p2pName # StaticNetwork

\* C29: on every startup path the peer service is started at most once per
\* boot, by the main thread or by the bootstrap thread and never by both, and
\* only after set_network_name gave it the resolved network name; it is never
\* started while it carries the statically configured name.
C29_PeerStartedOnceWithResolvedName ==
    /\ [](count["start_p2p"] <= 1)
    /\ [](p2pStart => pc["boot"] = "unspawned")
    /\ [](running["p2p"] \/ count["start_p2p"] = 1 => PeerCarriesResolvedName)
    /\ [][count'["start_p2p"] # count["start_p2p"] =>
            /\ PeerCarriesResolvedName
            /\ p2pName' = p2pName
            /\ \/ pc["main"] = "start_p2p" /\ p2pStart /\ pc["boot"] = "unspawned"
               \/ pc["boot"] = "bt_p2p_start" /\ ~p2pStart
                    /\ pc["main"] \notin {"join_p2p_name", "inl_p2p_name"}]_vars

\* C29 witness: the bootstrap thread has started the peer service under the
\* bundle's name after the main thread went past its own, skipped, start.
C29_Witness ==
    /\ count["start_p2p"] = 1 /\ running["p2p"]
    /\ pc["boot"] = "done"
    /\ pc["main"] = "park_poll"
    /\ p2pName = bootstrap.name


\* ------------------------------------------------------------------ C30
\* A startup path has ended: Live predicate installed, peer service started.
PathEnded == bsValidator = "live" /\ count["start_p2p"] = 1

\* The min_node_version of the settings in force was compared with VERSION
\* and VERSION is not older.
VersionVerified ==
    /\ count["versionCheck"] >= 1
    /\ dbSettings.state = "ok"
    /\ VersionAccepted(dbSettings.value.min_node_version)

\* C30 (as claimed): on every startup path that ends with the Live predicate
\* installed and the peer service started (Joining, inline genesis, genesis
\* on the bootstrap thread) the min_node_version of the settings in force has
\* been compared with the binary's version beforehand, and an older binary
\* never gets there.
C30_VersionCheckedOnEveryPath == PathEnded => VersionVerified

\* What the code does guarantee: the two paths that end on the main thread
\* go through set_config_from_db and its version check.
MainPathsCheckVersion == PathEnded /\ pc["boot"] = "unspawned" => VersionVerified

\* The bootstrap thread has ended its path without any version check, under
\* settings that require a newer binary.
OlderBinaryOperational ==
    /\ PathEnded /\ pc["boot"] = "done"
    /\ count["versionCheck"] = 0
    /\ ~VersionAccepted(dbSettings.value.min_node_version)


\* ------------------------------------------------------------------ C31
\* C31 (as claimed): crash consistency of the bootstrap decision.  At every
\* point of a boot that stored the system account, if the account is in
\* storage then the settings are there under "blockchain:settings".
C31_AccountImpliesSettings ==
    count["storeAccount"] >= 1 /\ dbAccount => dbSettings.state = "ok"

\* A genesis boot has ended by a panic of the main thread with the system
\* account stored and no settings: the next boot resolves Established and
\* finds nothing to load.
InterruptedGenesis ==
    /\ ~procAlive /\ pc["main"] = "panicked"
    /\ count["storeAccount"] = 1 /\ dbAccount
    /\ dbSettings.state = "absent"

\* What a boot that finds the account without settings does: it resolves
\* Established and panics in set_config_from_db.
RebootWithoutSettingsPanics ==
    count["storeAccount"] = 0 /\ dbAccount /\ dbSettings.state # "ok" =>
        pc["main"] \in {"start_block", "resolve", "join_cfg", "panicked"}


\* ------------------------------------------------------------------ C32
\* The bootstrap thread is between bs.stop() and bs.start() (lines 496-515).
Reconfiguring ==
    pc["boot"] \in {"bt_set_config", "bt_set_burn", "bt_store", "bt_set_validator", "bt_start"}

\* A step of park that reads the block engine's is_running().
PollsBlock ==
    /\ pc["main"] = "park_poll" /\ PolledServices[parkIdx] = "block"
    /\ parkIdx' # parkIdx

\* The engine's latest stop/start call came from the bootstrap thread's stop.
StoppedByBootThread ==
    /\ bsLog # <<>>
    /\ \E i \in DOMAIN bsLog :
          /\ bsLog[i] = [by |-> "boot", call |-> "stop"]
          /\ \A j \in (i + 1)..Len(bsLog) : bsLog[j].call \notin {"start", "stop"}

\* C32: an in-progress reconfiguration never triggers shutdown.  While the
\* bootstrap thread performs stop, configure, start on the block engine it
\* holds the engine's lock, park's read of the engine waits for it, and no
\* tick sees the engine stopped because of the reconfiguration: whenever park
\* decides to stop, a service has stopped by itself.
C32_ReconfigurationNeverTriggersShutdown ==
    /\ [](Reconfiguring => bsLock = "boot")
    /\ [](StoppedByBootThread => Reconfiguring)
    /\ [][PollsBlock => ~Reconfiguring /\ ~StoppedByBootThread]_vars
    /\ [](stopFlag => failures >= 1)

\* C32 witness: park waits at its read of the block engine while the
\* bootstrap thread has the engine stopped.
C32_Witness ==
    /\ pc["main"] = "park_poll" /\ PolledServices[parkIdx] = "block"
    /\ Reconfiguring /\ ~running["block"] /\ bsLock = "boot"
    /\ failures = 0


\* ------------------------------------------------------------------ C33
\* park has called stop() on service s.
ParkStopped(s) == \E i \in DOMAIN parkStops : parkStops[i] = s

\* A step that calls start() on the block engine.
EngineStarted == Len(bsLog') > Len(bsLog) /\ bsLog'[Len(bsLog')].call = "start"

ParkShutDown == pc["main"] \in {"park_returned", "exited"} /\ parkStops = FullStopOrder

\* C34: if the Block Request Channel becomes closed the monitor worker
\* eventually leaves its loop; from then on is_running() of the monitor
\* service is false, and park stops all services and returns, under fair
\* scheduling of the worker and of the main thread.
C34_ClosedChannelLeadsToShutdown ==
    /\ [](MonTerminated => ~running["monitor"])
    /\ [](running["monitor"] /\ (\A s \in {"block", "rest", "bridge"} : running[s]) =>
            ~stopFlag /\ pc["main"] = "park_poll")
    /\ [](stopFlag \/ ParkShutDown => MonTerminated)
    /\ (~chanOpen ~> ParkShutDown)

\* C34 witness: the channel closed, the worker returned from run, nothing
\* else failed, and park has stopped every service and returned.
C34_Witness ==
    /\ ~chanOpen /\ monPc = "returned"
    /\ ParkShutDown
    /\ tickDown = {"monitor"}


\* ------------------------------------------------------------------ C35
\* MonitorService::is_running(): the canary has two owners.
MonitorIsRunning == running["monitor"]

\* start() has returned having spawned the worker thread.
MonitorStarted == monSvc.handler /\ monSvc.spawned = 1

\* C35: is_running() is false before start(), true from the moment start()
\* returns, even before the spawned thread has begun to execute, until the
\* worker thread ends, and false once the thread has ended, whether run
\* returned or the thread panicked.
C35_IsRunningFollowsWorkerThread ==
    /\ [](~MonitorStarted => ~MonitorIsRunning /\ monPc = "unstarted")
    /\ [](MonitorStarted /\ ~MonTerminated => MonitorIsRunning)
    /\ [](MonTerminated => MonitorStarted /\ ~MonitorIsRunning)
    /\ [][MonitorIsRunning' # MonitorIsRunning =>
            \/ ~MonitorStarted /\ MonitorStarted' /\ MonitorIsRunning' /\ monPc' = "unstarted"
            \/ ~MonTerminated /\ MonTerminated' /\ ~MonitorIsRunning']_vars

\* C35 witness: start() has returned, the spawned thread has not yet executed
\* a statement of run, and is_running() is true.
C35_Witness ==
    /\ MonitorStarted /\ monPc = "unstarted"
    /\ MonitorIsRunning
    /\ count["start_monitor"] = 1 /\ pc["main"] = "park_poll"

\* The other two ends of the worker thread's life.
MonitorEndedByReturn == monPc = "returned" /\ ~MonitorIsRunning
MonitorEndedByPanic == monPc = "panicked" /\ ~MonitorIsRunning


\* ------------------------------------------------------------------ C36
\* The step of park's shutdown that calls stop() on the monitor service.
StopsMonitor ==
    /\ pc["main"] = "park_stop" /\ StopOrder[parkIdx] = "monitor"
    /\ Len(parkStops') > Len(parkStops)

\* MonitorService::stop() changes nothing: service, worker thread and
\* is_running() are as they were.
StopChangesNothing ==
    [][StopsMonitor => /\ monitorVars' = monitorVars
                       /\ running'["monitor"] = running["monitor"]]_vars

\* C36 (as claimed): MonitorService::stop() is no cancellation path: the call
\* changes nothing, and after the supervisor's shutdown the monitor worker
\* stops only when the channel reports closed.
C36_WorkerOutlivesStopUntilChannelCloses ==
    /\ StopChangesNothing
    /\ [][ParkStopped("monitor") /\ ~MonTerminated /\ MonTerminated' => ~chanOpen]_vars

\* park has shut down with the worker alive, and the worker has then ended
\* by the panic of save_update, the channel open.
WorkerPanickedAfterShutdown ==
    /\ ParkStopped("monitor") /\ "monitor" \notin tickDown
    /\ monPc = "panicked" /\ chanOpen
    /\ procAlive

\* park has shut down and main has returned with the worker still in its
\* loop: the process exit ends the thread.
WorkerEndedByExit ==
    /\ pc["main"] = "exited" /\ ~procAlive
    /\ ~MonTerminated /\ running["monitor"] /\ chanOpen


\* ------------------------------------------------------------------ C37
\* C37: after each monitor cycle that received core statistics, the
\* snapshot's unconfirmed_pool is absent exactly when the reported pool size
\* is 0 and otherwise holds the pool hash and pool size of that cycle, never
\* those of an earlier one; last_block is the block that cycle reported, or
\* the block it held before when the cycle reported none, and never returns
\* to absent once set.
C37_SnapshotHoldsLatestStatistics ==
    /\ [](monLog.n = 0 =>
             monSnapshot.unconfirmed_pool = NoPool /\ monSnapshot.last_block = NoLastBlock)
    /\ [](monLog.n > 0 =>
             /\ monSnapshot.unconfirmed_pool.some <=> monLog.size # 0
             /\ monSnapshot.unconfirmed_pool =
                   IF monLog.size = 0 THEN NoPool
                   ELSE [some |-> TRUE, hash |-> monLog.hash, size |-> monLog.size]
             /\ monSnapshot.last_block =
                   IF monLog.block.some THEN LastBlock(monLog.block) ELSE monLog.before)
    /\ [][monSnapshot.last_block.some => monSnapshot'.last_block.some]_vars
    /\ [][monSnapshot'.unconfirmed_pool # monSnapshot.unconfirmed_pool
             \/ monSnapshot'.last_block # monSnapshot.last_block =>
             monPc = "stats_recv" /\ monPc' = "seed_send" /\ monLog'.n = monCycle]_vars

\* C37 witness: the second cycle reported an empty queue and no block; the
\* snapshot has no pool and still holds the block of the first cycle.
C37_Witness ==
    /\ monLog.n = 2 /\ monLog.size = 0 /\ ~monLog.block.some
    /\ monSnapshot.unconfirmed_pool = NoPool
    /\ monLog.before.some /\ monSnapshot.last_block = monLog.before
    /\ monPc = "sleep"


\* ------------------------------------------------------------------ C38
\* The step of run that receives a message other than GetCoreStatsResponse
\* in reply to its statistics request.
StatsAnsweredByOther == monPc = "stats_recv" /\ monPc' = "sleep"

\* The step of update that receives its seed request's reply.
SeedAnswered == monPc = "seed_recv" /\ monPc' = "send_update"

\* C38: a cycle whose statistics request is answered by a message other than
\* GetCoreStatsResponse leaves the snapshot unchanged, issues no seed request,
\* makes no push and no file write, and the worker goes on to the next cycle;
\* a seed request answered by anything but a seed response leaves the
\* snapshot's seed unchanged.
C38_UnexpectedReplyChangesNothing ==
    /\ [][StatsAnsweredByOther =>
            /\ monSnapshot' = monSnapshot
            /\ monReport' = monReport
            /\ monLog' = monLog
            /\ monCycle' = monCycle
            /\ running' = running]_vars
    /\ [][monPc = "stats_recv" => monPc' \in {"stats_recv", "seed_send", "sleep", "returned"}]_vars
    /\ [][monPc' = "seed_send" /\ monPc # "seed_send" =>
            monPc = "stats_recv" /\ monLog'.n = monCycle /\ monLog'.seed = "none"]_vars
    /\ [][monPc' = "send_update" /\ monPc # "send_update" =>
            monPc \in {"seed_send", "seed_recv"} /\ monLog.n = monCycle]_vars
    /\ [][monPc' = "save_update" /\ monPc # "save_update" =>
            monPc = "send_update" /\ monLog.n = monCycle]_vars
    /\ [][monReport' # monReport => monPc = "save_update" /\ monLog.n = monCycle]_vars
    /\ [][SeedAnswered =>
            /\ [monSnapshot' EXCEPT !.seed = 0] = [monSnapshot EXCEPT !.seed = 0]
            /\ monLog'.seed # "response" => monSnapshot'.seed = monSnapshot.seed]_vars
    /\ [][monSnapshot'.seed # monSnapshot.seed => SeedAnswered /\ monLog'.seed = "response"]_vars

\* C38 witness: the second cycle's statistics request got another message;
\* snapshot, report and log are those of the first cycle, whose seed request
\* had got another message too, and the worker sleeps.
C38_Witness ==
    /\ monCycle = 2 /\ monLog.n = 1 /\ monPc = "sleep"
    /\ monLog.seed = "other" /\ monSnapshot.seed = InitialSnapshot.seed
    /\ monLog.saved = "complete" /\ monReport = Report(TRUE, monSnapshot)
    /\ chanOpen


\* ==================================== the monitor's network name (C39)
\* The first boot of a node whose genesis bundle has no transaction, at the
\* return of App::start: the bundle is loaded, the engine carries the
\* provisional settings, the bootstrap thread is spawned and has not yet run,
\* the REST, bridge and monitor services are started, the peer service is not.
EmptyGenesisStarted ==
    /\ procAlive = TRUE
    /\ pc = [t \in Threads |-> IF t = "main" THEN "park_poll" ELSE "bm_subscribe"]
    /\ ret = "gen_branch"
    /\ cfgArg = GenesisSettings(<<>>)
    /\ netName = NoName
    /\ p2pStart = FALSE
    /\ bootstrap = LoadBootstrapStructFromFile(File(Encode(Bundle(0))))
    /\ svcCfg = Absent
    /\ startArgs = TRUE
    /\ stopFlag = FALSE
    /\ parkIdx = 1
    /\ bsLock = NoOne
    /\ running = [s \in Services |-> s # "p2p"]
    /\ bsConfig = [network |-> BootstrapName,
                   threshold |-> GenesisThreshold(<<>>),
                   timeout |-> GenesisTimeout]
    /\ bsBurn = ""
    /\ bsValidator = "stub"
    /\ pool = <<>>
    /\ p2pName = StaticNetwork
    /\ dbAccount = TRUE
    /\ dbSettings = Absent
    /\ svcData = Absent
    /\ bootstrapFile = File(Encode(Bundle(0)))
    /\ chanOpen = TRUE
    /\ subscribed = FALSE
    /\ events = <<>>
    /\ blocks = 0
    /\ noise = 0
    /\ failures = 0
    /\ chanErrLogged = FALSE
    /\ resolved = "Unestablished"
    /\ lastReply = [t \in Threads |-> IF t = "main" THEN "NotFound" ELSE "none"]
    /\ bsLog = [i \in 1..5 |->
                   [by |-> "main",
                    call |-> <<"start", "stop", "set_block_config",
                               "set_burn_fuel_method", "start">>[i]]]
    /\ parkStops = <<>>
    /\ tickDown = {}
    /\ count = [c \in Counted |->
                   IF c \in {"resolver", "genesisLoad", "storeAccount", "spawn",
                             "start_rest", "start_bridge", "start_monitor"}
                   THEN 1 ELSE 0]

NameInit ==
    /\ EmptyGenesisStarted /\ ThreadsIdle /\ ConfigIdle /\ VersionIdle
    /\ monSvc = MonitorServiceStart(MonitorServiceNew, "alive")

\* The bootstrap thread, the engine's first block and the monitor worker.
NameNext == BootThread \/ EngineCommitBlock \/ MonitorWorker

NameSpec == NameInit /\ [][NameNext]_vars

\* The bootstrap thread has finished: the engine runs under the
\* content-derived name of the genesis bundle.
NameSettled ==
    /\ pc["boot"] = "done" /\ running["block"]
    /\ bsConfig.network = CalculateNetworkName(bootstrapFile.bytes)

\* This step of the worker sends the push, or writes the report file.
Pushes == monPc = "send_update" /\ monLog'.push = "ok"
Saves == monPc = "save_update" /\ monReport' # monReport

\* run has taken the name from a GetNetworkIdResponse: the snapshot no longer
\* holds the name of the static configuration.
NameFetched == monSnapshot.name # InitialSnapshot.name

\* C39: once the bootstrap thread has given the engine the content-derived
\* network name, a report the monitor pushes or writes, its worker having
\* fetched the name from the engine, carries that name and not the
\* provisional one.
C39_ReportsCarryEngineName ==
    [][NameSettled /\ NameFetched =>
          /\ Pushes => monSnapshot.name = bsConfig.network
          /\ Saves => monReport'.snapshot.name = bsConfig.network]_vars

\* C39: the state the worker's start is taken from is one the application
\* reaches.
C39_StartReached == EmptyGenesisStarted /\ monSvc.handler /\ monPc = "unstarted"


\* ================================================= utils::check_version
\* The versions of the test: 0.2.6, 0.2.7, 0.2.7.0 (equal to 0.2.7), 0.3 and
\* a string that is no version.
CheckedVersions == MinVersions \cup {VERSION}

\* A pair (node version, core version).
VersionPairs == CheckedVersions \X CheckedVersions

\* check_version(local_version, remote_version): the tuple the match is made
\* on compares the node versions as (local, remote) and the core versions as
\* (remote, local); either unwrap panics on a string that is no version; the
\* first arm that matches logs its warning.
CheckVersion(local_version, remote_version) ==
    LET node == VersionCompare(local_version[1], remote_version[1])
        core == VersionCompare(remote_version[2], local_version[2])
    IN  IF node = "Err" \/ core = "Err" THEN "panic"
        ELSE IF node = "Lt" THEN "local node version not up to date"
        ELSE IF node = "Gt" THEN "local node version more recent than bootstrap node verison"
        ELSE IF core = "Lt" THEN "local core version not up to date"
        ELSE IF core = "Gt" THEN "local core version more recent than bootstrap node verison"
        ELSE "nothing"

\* check_version is called on the pending arguments.
CallCheckVersion ==
    /\ cvCall.logged = "pending"
    /\ cvCall' = [cvCall EXCEPT !.logged = CheckVersion(cvCall.local, cvCall.remote)]
    /\ UNCHANGED <<appQuiet, running, chanOpen, envVars, validatorVars, monitorVars,
                   tracerVars, configVars>>

\* Any two pairs of versions, on a node that has not started.
VersionInit ==
    /\ AppNew /\ ThreadsIdle /\ monSvc = MonitorServiceNew /\ ConfigIdle
    /\ \E local \in VersionPairs, remote \in VersionPairs :
          cvCall = [local |-> local, remote |-> remote, logged |-> "pending"]

VersionSpec == VersionInit /\ [][CallCheckVersion]_vars

\* The call has returned, its four version strings being versions.
VersionChecked == cvCall.logged \notin {"idle", "pending", "panic"}

\* The true order of the local and the remote version: element 1 of a pair is
\* the node's, element 2 the core's.
LocalIs(order, i) == VersionCompare(cvCall.local[i], cvCall.remote[i]) = order

\* C40: check_version reports each mismatch in the right direction.  A node
\* mismatch is reported as "not up to date" exactly when the local node
\* version is lower and as "more recent" exactly when it is higher; with equal
\* node versions the same holds of the core versions; nothing is logged
\* exactly when both are equal.
C40_WarningsFollowDirection ==
    VersionChecked =>
        /\ cvCall.logged = "local node version not up to date" <=> LocalIs("Lt", 1)
        /\ cvCall.logged = "local node version more recent than bootstrap node verison"
              <=> LocalIs("Gt", 1)
        /\ LocalIs("Eq", 1) =>
              /\ cvCall.logged = "local core version not up to date" <=> LocalIs("Lt", 2)
              /\ cvCall.logged = "local core version more recent than bootstrap node verison"
                    <=> LocalIs("Gt", 2)
              /\ cvCall.logged = "nothing" <=> LocalIs("Eq", 2)

\* C40: the part of the statement about the node versions and about equal
\* versions, which the code keeps.
C40_NodeWarningsFollowDirection ==
    VersionChecked =>
        /\ cvCall.logged = "local node version not up to date" <=> LocalIs("Lt", 1)
        /\ cvCall.logged = "local node version more recent than bootstrap node verison"
              <=> LocalIs("Gt", 1)
        /\ cvCall.logged = "nothing" <=> LocalIs("Eq", 1) /\ LocalIs("Eq", 2)

\* C40: with equal node versions and a lower local core version the warning
\* logged says that the local core is the more recent.
C40_CoreWarningReversed ==
    /\ VersionChecked /\ LocalIs("Eq", 1) /\ LocalIs("Lt", 2)
    /\ cvCall.logged = "local core version more recent than bootstrap node verison"

====
